---------------------------- MODULE Spec2Model ----------------------------
(***************************************************************************)
(* Street coverage mapper: the trajectory classifier and the coverage      *)
(* matcher of src/data/walk_processor.py (analyze_walks).                  *)
(*                                                                         *)
(* Geometry.  shapely/geopandas are external; they are modelled exactly on *)
(* one family of geometries.  All streets lie on one straight line (the    *)
(* x axis of the metric CRS, coordinates in whole metres).  A walk is a    *)
(* polyline that follows the line on a sequence of "runs" [lo, hi], left   *)
(* to right, and between two runs (or to close a loop) leaves the line     *)
(* perpendicularly and travels farther away from it than any buffer        *)
(* distance.  For such a walk                                              *)
(*   buffer(walk, b) /\ line  =  union of [lo - b, hi + b] over its runs,  *)
(*   bounds(buffer(walk, b))  =  [first lo - b, last hi + b] in x, and a   *)
(*                               y range that contains the line,           *)
(* so intersects, intersection, length and the spatial index query are     *)
(* interval computations.  Lengths are metres, durations seconds.          *)
(*                                                                         *)
(* Numbers.  Speeds are kept in tenths of a metre per second (3.0 m/s is   *)
(* 30); comparisons of quotients are made by cross multiplication;         *)
(* coverage_percent is an exact fraction <<numerator, denominator>> in     *)
(* lowest terms.  Floating-point rounding is not modelled.                 *)
(***************************************************************************)
EXTENDS Integers, Sequences, FiniteSets, TLC

VARIABLES
    walks_gdf,      \* the caller's walks collection (a sequence of walks)
    streets_gdf,    \* the caller's streets collection (a sequence of streets)
    call_args,      \* how the last call was made: 0 none yet, 2 (walks, streets), 3 (walks, streets, city)
    call_city,      \* the city passed by the last three-argument call ("" if none)
    result,         \* what the last call did: [outcome, error, streets, walks]
    first_result,   \* history: what the first two-argument call did
    rerun,          \* history: a two-argument call was made after an earlier one
    streets_in,     \* history: the streets collection as the caller built it
    city_cache,     \* data/processed/city_cache: file key -> contents of <key>_params.json
    params_call,    \* the last call of get_city_parameters or analyze_city and what it did
    tcx_file,       \* a file of data/raw
    parse_call,     \* the last call of a parse_tcx_file and what it returned
    directory,      \* the .tcx files of a directory, as glob lists them
    pool,           \* parallel_process_walk_files: where the call is and the worker pool
    streets_cache,  \* data/processed: file key -> contents of <key>_streets.geojson
    load_call,      \* the last call of load_street_network and what it returned
    main,           \* a run of scripts/process.py: arguments, position, locals, exit
    classify_call,  \* a track, and what a classifier made of it once it was called
    ox_settings,    \* osmnx.settings, the process-wide settings of the downloads
    validate_call   \* the last call of validate_city_name and what it returned

matcher_vars == <<walks_gdf, streets_gdf, call_args, call_city, result,
                  first_result, rerun, streets_in>>

params_vars == <<city_cache, params_call>>

parse_vars == <<tcx_file, parse_call>>

pool_vars == <<directory, pool>>

loader_vars == <<streets_cache, load_call>>

validate_vars == <<ox_settings, validate_call>>

vars == <<matcher_vars, params_vars, parse_vars, pool_vars, loader_vars, main,
          classify_call, validate_vars>>

-----------------------------------------------------------------------------
(* Bounds of the model *)

MaxWalks == 2

MaxStreets == 2

\* trackpoints of a file
MaxPoints == 3

\* files of a directory
MaxFiles == 3

\* worker processes and cores
MaxWorkers == 2

\* edges of one downloaded place
MaxEdges == 2

\* segments of a network whose orientations are varied
MaxBearings == 3

-----------------------------------------------------------------------------
(* Arithmetic helpers *)

Abs(x) == IF x < 0 THEN -x ELSE x

Min(a, b) == IF a <= b THEN a ELSE b

Max(a, b) == IF a >= b THEN a ELSE b

RECURSIVE GCD(_, _)
GCD(a, b) == IF b = 0 THEN a ELSE GCD(b, a % b)

\* the fraction n/d (d > 0, n >= 0) in lowest terms
Frac(n, d) == LET g == GCD(n, d) IN <<n \div g, d \div g>>

FracLeq(p, q) == p[1] * q[2] <= q[1] * p[2]

\* a * m >= c for naturals, without forming a * m
MulGeq(a, m, c) == a >= (c + m - 1) \div m

-----------------------------------------------------------------------------
(* utils/config.py *)

\* LEGACY_CITY_PARAMS, config.py lines 8-60.  Speeds and max_sinuosity in
\* tenths, bbox in tenths of a degree, boroughs as the number of names listed.
LEGACY_CITY_PARAMS ==
    [c \in {"new_york", "london"} |->
        IF c = "new_york"
        THEN [buffer_distance |-> 5, max_walking_speed |-> 30,
              min_walking_speed |-> 1, max_sinuosity |-> 40,
              max_direct_distance |-> 15000,
              bbox |-> <<-743, 405, -737, 409>>]
        ELSE [buffer_distance |-> 8, max_walking_speed |-> 30,
              min_walking_speed |-> 1, max_sinuosity |-> 40,
              max_direct_distance |-> 15000,
              bbox |-> <<-6, 511, 4, 518>>, boroughs |-> 33]]

\* CITY_PARAMS = LEGACY_CITY_PARAMS, config.py line 98
CITY_PARAMS == LEGACY_CITY_PARAMS

\* get_default_parameters, config.py lines 86-95
get_default_parameters ==
    [buffer_distance |-> 8, max_walking_speed |-> 30, min_walking_speed |-> 1,
     max_sinuosity |-> 40, max_direct_distance |-> 15000, bbox |-> <<>>]

\* The projected length of one degree: DEFAULT_CRS is EPSG:4326 (degrees),
\* METRIC_CRS is EPSG:3857 (metres), config.py lines 106-107.
MetresPerDegree == 111319

-----------------------------------------------------------------------------
(* Inputs *)

Iv(lo, hi) == [lo |-> lo, hi |-> hi]

Walk(runs, extra, closed, dur) ==
    [runs |-> runs, extra |-> extra, closed |-> closed, dur |-> dur]

\* The walks a caller can pass.  runs: the stretches on the street line;
\* extra: metres walked off the line; closed: the walk ends where it began;
\* dur: end_time - start_time in seconds.
WalkTypes ==
    { Walk(<<Iv(0, 100)>>, 0, FALSE, 100),                  \* 100 m at 1 m/s
      Walk(<<Iv(0, 600)>>, 0, FALSE, 1000),                 \* 600 m at 0.6 m/s
      Walk(<<Iv(0, 100), Iv(400, 600)>>, 400, FALSE, 1000), \* leaves the line between 100 and 400
      Walk(<<Iv(0, 100)>>, 100, TRUE, 100),                 \* 200 m loop at 2 m/s
      Walk(<<Iv(0, 100)>>, 0, FALSE, 10),                   \* 100 m at 10 m/s
      Walk(<<Iv(0, 100)>>, 100, TRUE, 50),                  \* 200 m loop at 4 m/s
      Walk(<<Iv(1000, 7000)>>, 0, FALSE, 600),              \* 6000 m straight in 600 s
      Walk(<<Iv(1000, 7000)>>, 0, FALSE, 30000),            \* 6000 m at 0.2 m/s
      Walk(<<Iv(0, 100)>>, 0, FALSE, 0),                    \* start_time = end_time
      Walk(<<Iv(0, 100)>>, 2400, TRUE, 1000) }              \* 2500 m loop at 2.5 m/s

Street(id, lo, hi, covered, pct) ==
    [street_id |-> id, lo |-> lo, hi |-> hi, covered |-> covered,
     coverage_percent |-> pct]

\* The street geometries a caller can pass, with the coverage fields they
\* carry on input: seeded (street_loader.py lines 109-110) or left over from
\* an earlier run.
StreetTypes ==
    { [lo |-> 0,   hi |-> 100, covered |-> FALSE, coverage_percent |-> <<0, 1>>],
      [lo |-> 0,   hi |-> 100, covered |-> TRUE,  coverage_percent |-> <<50, 1>>],
      [lo |-> 0,   hi |-> 600, covered |-> FALSE, coverage_percent |-> <<0, 1>>],
      [lo |-> 200, hi |-> 300, covered |-> FALSE, coverage_percent |-> <<0, 1>>],
      [lo |-> 50,  hi |-> 50,  covered |-> FALSE, coverage_percent |-> <<0, 1>>] }

SeqsUpTo(S, n) == UNION { [1..k -> S] : k \in 0..n }

\* walks in a fixed order of their durations and lengths: the order of the
\* rows of walks_gdf does not enter any sum or set the matcher computes
WalkKey(w) == <<w.dur, w.extra, Len(w.runs), w.runs[1].hi>>

KeyLeq(a, b) ==
    \E i \in 1..5 :
        /\ \A j \in 1..(i - 1) : a[j] = b[j]
        /\ i = 5 \/ a[i] < b[i]

WalkInputs ==
    { ws \in SeqsUpTo(WalkTypes, MaxWalks) :
        \A i \in 1..(Len(ws) - 1) : KeyLeq(WalkKey(ws[i]), WalkKey(ws[i + 1])) }

\* street_id is the row number the loader assigns (street_loader.py line 106)
StreetInputs ==
    { [i \in DOMAIN ss |->
          Street(i - 1, ss[i].lo, ss[i].hi, ss[i].covered, ss[i].coverage_percent)] :
      ss \in SeqsUpTo(StreetTypes, MaxStreets) }

\* batch sizes tried: the code's constant and small ones that split the input
batch_size_code == 5000

BatchSizes == (1..MaxStreets) \cup {batch_size_code}

Cities == {"new_york", "london", "Paris, France"}

-----------------------------------------------------------------------------
(* analyze_walks: classification, walk_processor.py lines 105-136 *)

RECURSIVE RunsLength(_)
RunsLength(runs) ==
    IF runs = <<>> THEN 0
    ELSE (Head(runs).hi - Head(runs).lo) + RunsLength(Tail(runs))

\* temp_gdf.to_crs(METRIC_CRS).geometry.iloc[0].length, lines 113-115
distance(walk) == RunsLength(walk.runs) + walk.extra

\* (walk.end_time - walk.start_time).total_seconds(), line 110
duration(walk) == walk.dur

\* Point(coords[0]).distance(Point(coords[-1])), lines 121-123, in metres.
\* The code measures it on walk.geometry, which is in the CRS of walks_gdf
\* (degrees): the value it gets is this one divided by MetresPerDegree.
straight_metres(walk) ==
    LET first == walk.runs[1].lo
        last  == IF walk.closed THEN first ELSE walk.runs[Len(walk.runs)].hi
    IN  Abs(last - first)

\* the bug of leaving out the upper speed bound
SpeedWithinMax_unbounded(walk, params) == TRUE

\* avg_speed <= max_walking_speed * 1.2, lines 118 and 130
\* (avg_speed is 0 when duration <= 0)
SpeedWithinMax(walk, params) ==
    IF duration(walk) > 0
    THEN distance(walk) * 100 <= params.max_walking_speed * 12 * duration(walk)
    ELSE TRUE

\* the bug of leaving out the lower speed bound
SpeedAboveMin_none(walk, params) == TRUE

\* avg_speed >= min_walking_speed, lines 118 and 131
SpeedAboveMin(walk, params) ==
    IF duration(walk) > 0
    THEN distance(walk) * 10 >= params.min_walking_speed * duration(walk)
    ELSE 0 >= params.min_walking_speed

\* sinuosity >= 1.05, lines 124 and 132, with
\* sinuosity = distance / straight_distance, straight_distance in degrees:
\* distance * MetresPerDegree / straight_metres >= 21/20
SinuosityNatural(walk) ==
    IF straight_metres(walk) > 0
    THEN MulGeq(distance(walk) * 20, MetresPerDegree, 21 * straight_metres(walk))
    ELSE FALSE

MAX_STRAIGHT_DISTANCE == 2000

MAX_WALK_DISTANCE == 5000

\* the condition of lines 130-133
IsValidWalk(walk, params) ==
    /\ SpeedWithinMax(walk, params)
    /\ SpeedAboveMin(walk, params)
    /\ (SinuosityNatural(walk) \/ distance(walk) <= MAX_STRAIGHT_DISTANCE)
    /\ distance(walk) <= MAX_WALK_DISTANCE

\* the loop of lines 106-134
FilterWalks(walks, params) == SelectSeq(walks, LAMBDA w : IsValidWalk(w, params))


-----------------------------------------------------------------------------
(* analyze_walks: the matcher, walk_processor.py lines 136-229 *)

Length(iv) == iv.hi - iv.lo

Overlap(a, b) == a.lo <= b.hi /\ b.lo <= a.hi

RECURSIVE MergeComponents(_)
MergeComponents(ivs) ==
    IF Len(ivs) <= 1 THEN ivs
    ELSE IF ivs[2].lo <= ivs[1].hi
         THEN MergeComponents(<<Iv(ivs[1].lo, Max(ivs[1].hi, ivs[2].hi))>>
                              \o SubSeq(ivs, 3, Len(ivs)))
         ELSE <<ivs[1]>> \o MergeComponents(Tail(ivs))

\* walk.geometry.buffer(buffer_distance), line 154: the parts of the street
\* line the corridor contains, left to right
Corridor(walk, buffer_distance) ==
    MergeComponents([i \in DOMAIN walk.runs |->
        Iv(walk.runs[i].lo - buffer_distance, walk.runs[i].hi + buffer_distance)])

\* the buffer distance of line 154
BufferDistance(params) == params.buffer_distance

\* buffered_walks, lines 153-154
BufferWalks(valid_walks, params) ==
    [i \in DOMAIN valid_walks |-> Corridor(valid_walks[i], BufferDistance(params))]

\* geometry.bounds of a corridor and of a street (x range; every y range
\* contains the street line)
CorridorBounds(corridor) == Iv(corridor[1].lo, corridor[Len(corridor)].hi)

StreetBounds(street) == Iv(street.lo, street.hi)

\* walks_sindex.intersection(bounds_tuple), line 170
SindexIntersection(buffered_walks, bounds) ==
    { i \in DOMAIN buffered_walks : Overlap(CorridorBounds(buffered_walks[i]), bounds) }

\* the bug of querying the index with the bounds of the batch's first street only
PossibleMatches_first(buffered_walks, batch_streets) ==
    SindexIntersection(buffered_walks, StreetBounds(batch_streets[1]))

\* possible_matches_idx, lines 165-171
PossibleMatches(buffered_walks, batch_streets) ==
    UNION { SindexIntersection(buffered_walks, StreetBounds(batch_streets[k])) :
            k \in DOMAIN batch_streets }

\* the bug of testing the geometry of the whole batch in place of the street's
StreetGeometry_batch(street, batch_streets) ==
    { Iv(batch_streets[k].lo, batch_streets[k].hi) : k \in DOMAIN batch_streets }

\* street.geometry as the street loop uses it, lines 182 and 190
StreetGeometry(street, batch_streets) == { Iv(street.lo, street.hi) }

\* relevant_walks.intersects(street.geometry), line 182
Intersects(geometry, corridor) ==
    \E g \in geometry : \E k \in DOMAIN corridor : Overlap(g, corridor[k])

\* street.geometry.intersection(walk.geometry), line 190: its parts
Intersection(geometry, corridor) ==
    { Iv(Max(g.lo, corridor[k].lo), Min(g.hi, corridor[k].hi)) :
      <<g, k>> \in { gk \in geometry \X DOMAIN corridor :
                       Overlap(gk[1], corridor[gk[2]]) } }

MAX_SEGMENT_LENGTH == 500

\* the bug of leaving out the 500 m test
PieceRetained_any(segment_length) == segment_length > 0

\* the tests of lines 196-199 and 205
PieceRetained(segment_length) ==
    segment_length > 0 /\ segment_length <= MAX_SEGMENT_LENGTH

\* lines 191-207 for one walk: the pieces appended to covered_segments
RetainedPieces(intersection) ==
    IF intersection = {} THEN {}
    ELSE IF Cardinality(intersection) > 1
         THEN { seg \in intersection : PieceRetained(Length(seg)) }
         ELSE { seg \in intersection : PieceRetained(Length(seg)) }

RECURSIVE SumLengths(_)
SumLengths(pieces) ==
    IF pieces = {} THEN 0
    ELSE LET p == CHOOSE q \in pieces : TRUE
         IN  Length(p) + SumLengths(pieces \ {p})

\* the loop of lines 189-207 over intersecting_walks, in row order:
\* <<number of covered_segments, total_covered_length>>
RECURSIVE CoveredTotals(_, _, _, _)
CoveredTotals(geometry, buffered_walks, intersecting_walks, i) ==
    IF i > Len(buffered_walks) THEN <<0, 0>>
    ELSE LET rest == CoveredTotals(geometry, buffered_walks, intersecting_walks, i + 1)
             kept == IF i \in intersecting_walks
                     THEN RetainedPieces(Intersection(geometry, buffered_walks[i]))
                     ELSE {}
         IN  <<Cardinality(kept) + rest[1], SumLengths(kept) + rest[2]>>

\* the bug of leaving out the cap at 100
CoveragePercent_uncapped(total_covered_length, street_length) ==
    Frac(total_covered_length * 100, street_length)

\* the bug of reporting the covered fraction in place of the percentage
CoveragePercent_fraction(total_covered_length, street_length) ==
    IF total_covered_length > 100 * street_length
    THEN <<100, 1>>
    ELSE Frac(total_covered_length, street_length)

\* lines 212 and 215: min((total_covered_length / length) * 100, 100)
CoveragePercent(total_covered_length, street_length) ==
    IF total_covered_length * 100 > 100 * street_length
    THEN <<100, 1>>
    ELSE Frac(total_covered_length * 100, street_length)

\* lines 180-217 for one street of a batch: the rows appended to covered_streets
StreetRows(street, batch_streets, buffered_walks, relevant_walks) ==
    LET geometry == StreetGeometry(street, batch_streets)
        intersecting_walks ==
            { i \in relevant_walks : Intersects(geometry, buffered_walks[i]) }
        totals == CoveredTotals(geometry, buffered_walks, intersecting_walks, 1)
    IN  IF /\ intersecting_walks # {}
           /\ totals[1] > 0
           /\ street.hi - street.lo > 0
           /\ totals[2] * 100 > 0
        THEN << [street EXCEPT
                   !.coverage_percent = CoveragePercent(totals[2], street.hi - street.lo),
                   !.covered = TRUE] >>
        ELSE <<>>

RECURSIVE BatchRows(_, _, _, _)
BatchRows(batch_streets, buffered_walks, relevant_walks, k) ==
    IF k > Len(batch_streets) THEN <<>>
    ELSE StreetRows(batch_streets[k], batch_streets, buffered_walks, relevant_walks)
         \o BatchRows(batch_streets, buffered_walks, relevant_walks, k + 1)

\* the loop of lines 161-217: covered_streets
RECURSIVE CoveredStreets(_, _, _, _)
CoveredStreets(streets, buffered_walks, size, i) ==
    IF i > Len(streets) THEN <<>>
    ELSE LET batch_streets == SubSeq(streets, i, Min(i + size - 1, Len(streets)))
             possible_matches_idx == PossibleMatches(buffered_walks, batch_streets)
         IN  (IF possible_matches_idx = {} THEN <<>>
              ELSE BatchRows(batch_streets, buffered_walks, possible_matches_idx, 1))
             \o CoveredStreets(streets, buffered_walks, size, i + size)

\* lines 140-143: the copy of the streets the function works on
WorkingStreets(streets) ==
    [i \in DOMAIN streets |->
        [streets[i] EXCEPT !.covered = FALSE, !.coverage_percent = <<0, 1>>]]

\* the bug of leaving out the copy of line 140: lines 141-142 then write
\* into the caller's collection
CallerStreets_inplace(streets, working) == working

\* line 140 rebinds the local name to a copy: the caller's collection is the
\* one it passed
CallerStreets(streets, working) == streets

\* gpd.GeoDataFrame(valid_walks, crs=...) of line 136 followed by to_crs of
\* line 146: with no row there is no geometry column, and geopandas raises
\* (ValueError at line 136 when a crs is given, AttributeError at line 146
\* otherwise)
ValidWalksFrameRaises(valid_walks) == valid_walks = <<>>

\* the parameters analyze_walks applies, lines 102-103
AnalysisParams == CITY_PARAMS["new_york"]

\* analyze_walks(walks_gdf, streets_gdf): what the call does.
\* [outcome, error, streets (first of the pair), walks (second of the pair)]
analyze_walks(walks, streets, size) ==
    LET valid_walks == FilterWalks(walks, AnalysisParams)
    IN  IF ValidWalksFrameRaises(valid_walks)
        THEN [outcome |-> "raised", error |-> "no geometry column",
              streets |-> <<>>, walks |-> <<>>]
        ELSE [outcome |-> "returned", error |-> "",
              streets |-> CoveredStreets(WorkingStreets(streets),
                                         BufferWalks(valid_walks, AnalysisParams),
                                         size, 1),
              walks |-> valid_walks]


-----------------------------------------------------------------------------
(* City names and the keys of the caches.  A city name is a sequence of    *)
(* one-character strings, so that lower() and replace() are computed.      *)

\* str.lower() on the characters the city names use
Lower(c) ==
    CASE c = "L" -> "l" [] c = "N" -> "n" [] c = "Y" -> "y" [] OTHER -> c

str_lower(name) == [i \in DOMAIN name |-> Lower(name[i])]

\* str.replace(old, new) for a one-character old; new is a sequence of characters
RECURSIVE str_replace(_, _, _)
str_replace(name, old, new) ==
    IF name = <<>> THEN <<>>
    ELSE (IF Head(name) = old THEN new ELSE <<Head(name)>>)
            \o str_replace(Tail(name), old, new)

\* the string a sequence of characters spells
RECURSIVE Str(_)
Str(name) == IF name = <<>> THEN "" ELSE Head(name) \o Str(Tail(name))

\* the values of --city the model tries
CityNames ==
    { <<"n", "e", "w", "_", "y", "o", "r", "k">>,      \* legacy
      <<"L", "o", "n", "d", "o", "n">>,                \* legacy once lowered
      <<"N", "e", "w", " ", "Y", "o", "r", "k", ",">> } \* "New York,": not legacy, but
                                                       \* its files are named new_york

\* city_name.lower() in LEGACY_CITY_PARAMS, config.py line 73 and process.py line 56
IsLegacy(city) == Str(str_lower(city)) \in DOMAIN LEGACY_CITY_PARAMS

\* clean_name of city_analyzer.py line 230
clean_name(city_name) ==
    Str(str_replace(str_replace(str_lower(city_name), " ", <<"_">>), ",", <<>>))

\* clean_name of process.py line 93
main_clean_name(city) ==
    Str(str_replace(str_replace(str_lower(city), " ", <<"_">>), ",", <<>>))

\* clean_city_name of process.py line 122 and clean_name of street_loader.py line 17
clean_city_name(city) ==
    Str(str_replace(str_replace(str_replace(str_lower(city), " ", <<"_">>),
                                ",", <<>>), "/", <<"_">>))

\* the names of the files <key>_params.json that data/processed/city_cache can hold
CacheKeys ==
    { clean_name(c) : c \in CityNames } \cup { main_clean_name(c) : c \in CityNames }
    \cup { clean_city_name(c) : c \in CityNames }

\* contents of one cache file
Absent == [kind |-> "absent"]

Unreadable == [kind |-> "unreadable"]

\* json.dump(params), city_analyzer.py line 255: a JSON object with the keys of
\* params; a bbox list stays a list, None becomes null
Stored(params) == [kind |-> "json", text |-> params]

\* json.load, line 240
Loaded(entry) == entry.text

EmptyCache == [k \in CacheKeys |-> Absent]

-----------------------------------------------------------------------------
(* utils/city_analyzer.py: class CityAnalyzer *)

\* What OpenStreetMap holds for a place: the total length of the edges and
\* the area of their convex hull (metres, square metres), the bearings of the
\* edge segments (degrees, 0..179), street_count of every node, the bounds.
Network(total_length, area, bearings, street_counts, bbox) ==
    [total_length |-> total_length, area |-> area, bearings |-> bearings,
     street_counts |-> street_counts, bbox |-> bbox]

NetworkTypes ==
    { Network(6000, 1000000, <<0, 90, 5, 95, 30>>, <<3, 4, 4>>, <<20, 480, 30, 490>>),
      Network(2500, 1000000, <<20, 70, 110, 0, 160>>, <<5, 6, 3>>, <<20, 480, 30, 490>>),
      Network(300, 0, <<>>, <<>>, <<0, 0, 0, 0>>) }

\* the steps of analyze_city that can raise
Steps == {"download", "density", "structure", "intersections"}

\* what the network does during one call of analyze_city: the step that
\* raises ("none" if all succeed) and the network found
Analyses == [fails : Steps \cup {"none"}, net : NetworkTypes]

\* the surroundings of one call of get_city_parameters: those of the analysis,
\* whether the cache file can be written and whether city_analyzer can be
\* imported (nothing else matters when it cannot)
Environments ==
    [fails : Steps \cup {"none"}, net : NetworkTypes, write_ok : BOOLEAN,
     import_ok : {TRUE}]
    \cup [fails : {"none"}, net : NetworkTypes, write_ok : {TRUE},
          import_ok : {FALSE}]

\* dict.get(key, default)
Get(d, key, default) == IF key \in DOMAIN d THEN d[key] ELSE default

\* p > q for fractions with positive denominators
FracGt(p, q) == p[1] * q[2] > q[1] * p[2]

\* _get_default_parameters, lines 207-216
CityAnalyzer_get_default_parameters ==
    [buffer_distance |-> 8, max_walking_speed |-> 30, min_walking_speed |-> 1,
     max_sinuosity |-> 40, max_direct_distance |-> 15000, bbox |-> <<>>]

\* CityAnalyzer.__init__, lines 17-21: street_network is None, no characteristics
CityAnalyzer_init == [has_network |-> FALSE, characteristics |-> <<>>]

\* the marker of a step that raised
Raised == [raised |-> TRUE]

IsRaised(self) == "raised" \in DOMAIN self

\* the bug of logging a failed download without raising it again
download_street_network_swallow(self, net, fails) ==
    IF fails THEN self
    ELSE [has_network |-> TRUE,
          characteristics |-> ("bbox" :> net.bbox) @@ self.characteristics]

\* _download_street_network, lines 48-65: sets street_network and
\* characteristics['bbox']; a failure is logged and raised again (line 65)
download_street_network(self, net, fails) ==
    IF fails THEN Raised
    ELSE [has_network |-> TRUE,
          characteristics |-> ("bbox" :> net.bbox) @@ self.characteristics]

\* _analyze_street_density, lines 67-88
analyze_street_density(self, net, fails) ==
    IF ~self.has_network THEN self
    ELSE IF fails THEN Raised
    ELSE LET street_density == IF net.area > 0
                               THEN <<net.total_length, net.area>>
                               ELSE <<0, 1>>
         IN  [self EXCEPT !.characteristics =
                  ("street_density" :> street_density)
                  @@ ("total_street_length" :> net.total_length)
                  @@ ("area" :> net.area) @@ @]

\* the bug of adding up three bins around each direction
GridBins_three == {16, 17, 0, 1, 3, 4, 5, 8, 9, 10, 12, 13, 14}

\* the bins of np.histogram(orientations, bins=18, range=(0, 180)) that
\* grid_indicators adds up: hist[0] + hist[-1], hist[4:6], hist[8:10],
\* hist[13:15], lines 115-123
GridBins == {0, 17, 4, 5, 8, 9, 13, 14}

RECURSIVE CountIn(_, _)
CountIn(values, S) ==
    IF values = <<>> THEN 0
    ELSE (IF Head(values) \in S THEN 1 ELSE 0) + CountIn(Tail(values), S)

\* _analyze_urban_structure, lines 90-132: grid_score = aligned / total and
\* is_grid = grid_score > 0.4, set only when there are orientations
analyze_urban_structure(self, net, fails) ==
    IF ~self.has_network THEN self
    ELSE IF fails THEN Raised
    ELSE LET orientations == net.bearings
             aligned == CountIn([i \in DOMAIN orientations |->
                                    orientations[i] \div 10], GridBins)
             total_count == Len(orientations)
             grid_score == <<aligned, total_count>>
         IN  IF orientations # <<>>
             THEN [self EXCEPT !.characteristics =
                      ("grid_score" :> grid_score)
                      @@ ("is_grid" :> FracGt(grid_score, <<4, 10>>)) @@ @]
             ELSE self

\* the bug of letting a failure of the intersection step escape
analyze_intersection_complexity_reraise(self, net, fails) ==
    IF ~self.has_network THEN self
    ELSE IF fails THEN Raised
    ELSE [self EXCEPT !.characteristics =
             ("intersection_complexity" :>
                 IF Len(net.street_counts) > 0
                 THEN <<CountIn(net.street_counts, 5..100), Len(net.street_counts)>>
                 ELSE <<0, 1>>) @@ @]

\* _analyze_intersection_complexity, lines 134-161: a second download of the
\* graph; when anything in it raises, the except branch of lines 159-161
\* sets intersection_complexity to 0.2 and the analysis goes on
analyze_intersection_complexity(self, net, fails) ==
    IF ~self.has_network THEN self
    ELSE IF fails
    THEN [self EXCEPT !.characteristics =
             ("intersection_complexity" :> <<2, 10>>) @@ @]
    ELSE LET total_intersections == Len(net.street_counts)
             complex_intersections == CountIn(net.street_counts, 5..100)
             complexity_ratio == IF total_intersections > 0
                                 THEN <<complex_intersections, total_intersections>>
                                 ELSE <<0, 1>>
         IN  [self EXCEPT !.characteristics =
                 ("intersection_complexity" :> complexity_ratio)
                 @@ ("total_intersections" :> total_intersections) @@ @]

\* the bug of thresholds that include their bound
calculate_optimal_parameters_inclusive(self) ==
    LET characteristics == self.characteristics
        street_density == Get(characteristics, "street_density", <<1, 1000>>)
        complexity == Get(characteristics, "intersection_complexity", <<2, 10>>)
        is_grid == Get(characteristics, "is_grid", FALSE)
    IN  [buffer_distance |->
             IF ~FracGt(<<5, 1000>>, street_density) THEN 3
             ELSE IF ~FracGt(<<2, 1000>>, street_density) THEN 5
             ELSE IF ~FracGt(<<1, 1000>>, street_density) THEN 8
             ELSE 12,
         max_walking_speed |-> IF is_grid THEN 35 ELSE 30,
         min_walking_speed |-> IF is_grid THEN 2 ELSE 1,
         max_sinuosity |-> IF ~FracGt(<<3, 10>>, complexity) THEN 50 ELSE 35,
         max_direct_distance |->
             CityAnalyzer_get_default_parameters.max_direct_distance,
         bbox |-> Get(characteristics, "bbox",
                      CityAnalyzer_get_default_parameters.bbox)]

\* _calculate_optimal_parameters, lines 163-205
calculate_optimal_parameters(self) ==
    LET characteristics == self.characteristics
        street_density == Get(characteristics, "street_density", <<1, 1000>>)
        complexity == Get(characteristics, "intersection_complexity", <<2, 10>>)
        is_grid == Get(characteristics, "is_grid", FALSE)
    IN  [buffer_distance |->
             IF FracGt(street_density, <<5, 1000>>) THEN 3
             ELSE IF FracGt(street_density, <<2, 1000>>) THEN 5
             ELSE IF FracGt(street_density, <<1, 1000>>) THEN 8
             ELSE 12,
         max_walking_speed |-> IF is_grid THEN 35 ELSE 30,
         min_walking_speed |-> IF is_grid THEN 2 ELSE 1,
         max_sinuosity |-> IF FracGt(complexity, <<3, 10>>) THEN 50 ELSE 35,
         max_direct_distance |->
             CityAnalyzer_get_default_parameters.max_direct_distance,
         bbox |-> Get(characteristics, "bbox",
                      CityAnalyzer_get_default_parameters.bbox)]

\* analyze_city, lines 23-46: [outcome, params, steps, characteristics], steps
\* being the steps that were started and characteristics what the analyzer
\* holds at the end; an exception of any step is caught at line 44
analyze_city(env) ==
    LET net == env.net
        s1 == download_street_network(CityAnalyzer_init, net,
                                      env.fails = "download")
        s2 == IF IsRaised(s1) THEN s1
              ELSE analyze_street_density(s1, net, env.fails = "density")
        s3 == IF IsRaised(s2) THEN s2
              ELSE analyze_urban_structure(s2, net, env.fails = "structure")
        s4 == IF IsRaised(s3) THEN s3
              ELSE analyze_intersection_complexity(s3, net,
                                                   env.fails = "intersections")
        steps == <<"download">>
                 \o (IF IsRaised(s1) THEN <<>> ELSE <<"density">>)
                 \o (IF IsRaised(s2) THEN <<>> ELSE <<"structure">>)
                 \o (IF IsRaised(s3) THEN <<>> ELSE <<"intersections">>)
    IN  [outcome |-> "returned",
         params |-> IF IsRaised(s4) THEN CityAnalyzer_get_default_parameters
                    ELSE calculate_optimal_parameters(s4),
         steps |-> steps,
         characteristics |-> IF IsRaised(s4) THEN <<>> ELSE s4.characteristics]

\* the bearings (degrees) the segments of the networks below can have
Bearings == {0, 20, 35, 45, 55, 85, 90, 140, 175}

\* networks that differ in the orientation of their segments only
BearingNetworks ==
    { Network(2500, 1000000, bearings, <<3, 4, 4>>, <<20, 480, 30, 490>>) :
        bearings \in SeqsUpTo(Bearings, MaxBearings) }

\* networks on and around the thresholds of density, grid score and complexity
ThresholdNetworks ==
    { Network(total_length, area, bearings, street_counts, <<20, 480, 30, 490>>) :
        total_length \in {1000, 1001, 2000, 2001, 5000, 5001},
        area \in {0, 1000000},
        bearings \in {<<>>, <<0, 90, 20, 20, 20>>, <<0, 90, 45, 20, 20>>},
        street_counts \in {<<>>, <<3, 4>>, <<5, 3, 3>>, <<5, 4, 4, 4>>,
                           <<5, 5, 5, 3, 3, 3, 3, 3, 3, 3>>} }

\* the analyses the estimator is tried on
EstimatorAnalyses ==
    [fails : {"none"}, net : BearingNetworks]
    \cup [fails : Steps \cup {"none"}, net : ThresholdNetworks]

-----------------------------------------------------------------------------
(* get_city_parameters: utils/city_analyzer.py and utils/config.py *)

\* the bug of analysing again although the cache holds an entry
cached_entry_usable_never(entry) == FALSE

\* os.path.exists(cache_file) and json.load succeeds, city_analyzer.py lines 237-244
cached_entry_usable(entry) == entry.kind = "json"

\* get_city_parameters(city_name, cache_dir) of city_analyzer.py, lines
\* 218-260: [outcome, params, cache, log]; log lists what the call touched
analyzer_get_city_parameters(city_name, cache, env) ==
    LET cache_file == clean_name(city_name)
    IN  IF cached_entry_usable(cache[cache_file])
        THEN [outcome |-> "returned", params |-> Loaded(cache[cache_file]),
              cache |-> cache, log |-> <<"cache_read">>]
        ELSE LET analysis == analyze_city(env)
             IN  [outcome |-> analysis.outcome,
                  params |-> analysis.params,
                  cache |-> IF env.write_ok
                            THEN [cache EXCEPT ![cache_file] = Stored(analysis.params)]
                            ELSE cache,
                  log |-> (IF cache[cache_file] = Absent THEN <<>>
                           ELSE <<"cache_read">>)
                          \o <<"analyze_city">> \o analysis.steps
                          \o <<"cache_write">>]

\* the bug of looking the city up in the cache before the legacy table
get_city_parameters_cache_first(city_name, cache, env) ==
    IF cached_entry_usable(cache[clean_name(city_name)]) \/ ~IsLegacy(city_name)
    THEN analyzer_get_city_parameters(city_name, cache, env)
    ELSE [outcome |-> "returned",
          params |-> LEGACY_CITY_PARAMS[Str(str_lower(city_name))],
          cache |-> cache, log |-> <<>>]

\* get_city_parameters(city_name) of config.py, lines 62-84
get_city_parameters(city_name, cache, env) ==
    IF IsLegacy(city_name)
    THEN [outcome |-> "returned",
          params |-> LEGACY_CITY_PARAMS[Str(str_lower(city_name))],
          cache |-> cache, log |-> <<>>]
    ELSE IF ~env.import_ok
    THEN [outcome |-> "returned", params |-> get_default_parameters,
          cache |-> cache, log |-> <<"import">>]
    ELSE analyzer_get_city_parameters(city_name, cache, env)

NoCall == [op |-> "none"]

\* city names that all normalize to the cache key new_york: "New York,",
\* "new york", and the legacy name new_york
StoreNames ==
    { <<"N", "e", "w", " ", "Y", "o", "r", "k", ",">>,
      <<"n", "e", "w", " ", "y", "o", "r", "k">>,
      <<"n", "e", "w", "_", "y", "o", "r", "k">> }

\* the state of the parameter store while another component is exercised
ParamsIdle == city_cache = EmptyCache /\ params_call = NoCall

-----------------------------------------------------------------------------
(* TCX files and the two parsers: parse_tcx_file of data/walk_processor.py *)
(* and parse_tcx_file of process_data.py                                   *)

\* One Trackpoint element.  time, lat, lon: "missing" (no such element),
\* "malformed" (text that datetime.fromisoformat or float rejects) or "ok";
\* position: whether there is a Position element.  t is the time in seconds,
\* lat and lon are whole degrees.
Trackpoint(time, t, position, lat_text, lat, lon_text, lon) ==
    [time |-> time, t |-> t, position |-> position, lat_text |-> lat_text,
     lat |-> lat, lon_text |-> lon_text, lon |-> lon]

TrackpointTypes ==
    { Trackpoint("ok", 0, TRUE, "ok", 40, "ok", -74),
      Trackpoint("ok", 60, TRUE, "ok", 41, "ok", -73),
      Trackpoint("missing", 0, TRUE, "ok", 42, "ok", -74),        \* no Time
      Trackpoint("ok", 30, FALSE, "missing", 0, "missing", 0),    \* no Position
      Trackpoint("ok", 40, TRUE, "missing", 0, "ok", -74),        \* no LatitudeDegrees
      Trackpoint("malformed", 0, TRUE, "ok", 43, "ok", -74),      \* unparseable timestamp
      Trackpoint("ok", 50, TRUE, "ok", 44, "malformed", 0),       \* unparseable longitude
      Trackpoint("ok", 70, TRUE, "ok", 95, "ok", -74),            \* latitude above 90
      Trackpoint("ok", 80, TRUE, "ok", 45, "ok", -181) }          \* longitude below -180

\* the Sport attribute of the first Activity element; "" stands for a file
\* with no Activity element
Sports == {"", "Walking", "Running", "walking"}

\* A file: whether ET.parse accepts it, the Sport of its first Activity, its
\* Trackpoint elements in document order, its name.
TcxFile(xml_ok, sport, trackpoints, name) ==
    [xml_ok |-> xml_ok, sport |-> sport, trackpoints |-> trackpoints,
     name |-> name]

TcxFiles ==
    { TcxFile(TRUE, sport, tps, "a.tcx") :
        sport \in Sports, tps \in SeqsUpTo(TrackpointTypes, MaxPoints) }
    \cup { TcxFile(FALSE, "", <<>>, "a.tcx") }

\* no value
None == [kind |-> "None"]

\* the dictionary both parsers return
Track(points, name) ==
    [kind |-> "track",
     geometry |-> [i \in DOMAIN points |-> <<points[i].lon, points[i].lat>>],
     start_time |-> points[1].t,
     end_time |-> points[Len(points)].t,
     source_file |-> name]

\* walk_processor.py lines 38 and 42: the trackpoint has Time, Position,
\* LatitudeDegrees and LongitudeDegrees elements
HasElements(tp) ==
    /\ tp.time # "missing"
    /\ tp.position
    /\ tp.lat_text # "missing" /\ tp.lon_text # "missing"

\* walk_processor.py lines 43-47: fromisoformat and float raise ValueError
ConversionRaises(tp) ==
    tp.time = "malformed" \/ tp.lat_text = "malformed" \/ tp.lon_text = "malformed"

\* the bug of accepting a track of one point
enough_trackpoints_one(trackpoints) == Len(trackpoints) >= 1

\* walk_processor.py line 49 and process_data.py lines 122 and 128
enough_trackpoints(trackpoints) == Len(trackpoints) >= 2

\* parse_tcx_file of walk_processor.py, lines 14-65.  An exception raised
\* anywhere in the body is caught at line 63 and None is returned.
parse_tcx_file(file) ==
    IF ~file.xml_ok THEN None
    ELSE IF file.sport = "" THEN None
    ELSE IF file.sport # "Walking" THEN None
    ELSE LET found == SelectSeq(file.trackpoints, HasElements)
         IN  IF \E i \in DOMAIN found : ConversionRaises(found[i]) THEN None
             ELSE IF ~enough_trackpoints(found) THEN None
             ELSE Track(found, file.name)

\* process_data.py lines 66-117: the trackpoints that are not skipped
ScriptKeeps(tp) ==
    /\ tp.time = "ok"
    /\ tp.position
    /\ tp.lat_text = "ok" /\ tp.lon_text = "ok"
    /\ -90 <= tp.lat /\ tp.lat <= 90
    /\ -180 <= tp.lon /\ tp.lon <= 180

\* parse_tcx_file of process_data.py, lines 52-144
script_parse_tcx_file(file) ==
    IF ~file.xml_ok THEN None
    ELSE LET data == SelectSeq(file.trackpoints, ScriptKeeps)
         IN  IF data = <<>> THEN None
             ELSE IF ~enough_trackpoints(data) THEN None
             ELSE Track(data, file.name)

\* the state of the parsers while another component is exercised
ParseIdle == tcx_file = TcxFile(FALSE, "", <<>>, "a.tcx") /\ parse_call = NoCall

-----------------------------------------------------------------------------
(* utils/parallel_processor.py *)

\* files of a directory that holds several
PoolFiles ==
    { TcxFile(TRUE, "Walking",
              <<Trackpoint("ok", 0, TRUE, "ok", 40, "ok", -74),
                Trackpoint("ok", 60, TRUE, "ok", 41, "ok", -73)>>, "a.tcx"),
      TcxFile(TRUE, "Walking",
              <<Trackpoint("ok", 10, TRUE, "ok", 50, "ok", 0),
                Trackpoint("ok", 90, TRUE, "ok", 51, "ok", 1)>>, "b.tcx"),
      TcxFile(TRUE, "Walking",
              <<Trackpoint("ok", 0, TRUE, "ok", 40, "ok", -74),
                Trackpoint("malformed", 0, TRUE, "ok", 43, "ok", -74)>>, "c.tcx"),
      TcxFile(FALSE, "", <<>>, "d.tcx") }

\* list(Path(directory).glob('*.tcx')), line 23: files in the order glob
\* lists them, no file twice
Directories ==
    { d \in SeqsUpTo(PoolFiles, MaxFiles) :
        \A i, j \in DOMAIN d : i # j => d[i] # d[j] }

\* process_tcx_file_wrapper, lines 13-19 (parse_tcx_file catches its own
\* exceptions, so the handler of line 17 has nothing left to catch)
process_tcx_file_wrapper(file_path) == parse_tcx_file(file_path)

\* a result that is not there yet
Todo == [kind |-> "todo"]

\* the bug of collecting results as they complete (imap_unordered)
pool_map_unordered(results, finished) ==
    [k \in DOMAIN finished |-> results[finished[k]]]

\* pool.map, line 36: the results in the order of the file list
pool_map(results, finished) == [i \in DOMAIN results |-> results[i]]

IsTrack(r) == r.kind = "track"

\* walks = [r for r in results if r is not None], line 39
drop_none(results) == SelectSeq(results, IsTrack)

PoolIdle == directory = <<>> /\ pool = [pc |-> "idle"]

-----------------------------------------------------------------------------
(* data/street_loader.py *)

\* the edges ox.graph_to_gdfs gives for a place that has n of them, end to
\* end on the street line
Edges(n) == [k \in 1..n |-> Iv(100 * (k - 1), 100 * k)]

\* What the network does during one call of load_street_network.  places:
\* the number of edges of the places asked for (none when the download
\* raises, one, or MaxEdges); the first place asked for gets places[1], the
\* second places[2], the third places[1] again and so on.  save_ok: whether
\* the cache file can be written.
LoaderEnvironments ==
    [places : [1..2 -> {0, 1, MaxEdges}], save_ok : BOOLEAN]

PlaceEdges(env, i) == Edges(env.places[((i - 1) % Len(env.places)) + 1])

\* the names of the files <key>_streets.geojson of data/processed
StreetCacheKeys == { clean_city_name(c) : c \in CityNames }

EmptyStreetCache == [k \in StreetCacheKeys |-> Absent]

\* streets_gdf.to_file(cache_file, driver='GeoJSON'), line 118
StoredStreets(rows) == [kind |-> "geojson", features |-> rows]

\* gpd.read_file(cache_file), line 24
ReadStreets(entry) == entry.features

\* gpd.GeoDataFrame(geometry=[], crs=DEFAULT_CRS), line 40
EmptyFrame == <<>>

\* lines 106-110: street_id = range(len(streets_gdf)), covered = False,
\* coverage_percent = 0.0
seed_streets(edges) ==
    [i \in DOMAIN edges |->
        Street(i - 1, edges[i].lo, edges[i].hi, FALSE, <<0, 1>>)]

\* pd.concat(all_streets, ignore_index=True), line 99, of the areas from
\* number a on
RECURSIVE concat_areas(_, _, _)
concat_areas(env, a, areas) ==
    IF a > areas THEN <<>>
    ELSE PlaceEdges(env, a) \o concat_areas(env, a + 1, areas)

\* the bug of numbering the segments of each area before they are combined
RECURSIVE legacy_city_streets_per_area(_, _, _)
legacy_city_streets_per_area(env, a, areas) ==
    IF a > areas THEN <<>>
    ELSE seed_streets(PlaceEdges(env, a))
            \o legacy_city_streets_per_area(env, a + 1, areas)

\* _load_legacy_city_network, lines 81-101: the areas that load are
\* combined, then numbered and seeded
legacy_city_streets(env, a, areas) == seed_streets(concat_areas(env, a, areas))

\* _load_legacy_city_network for the boroughs of config.py lines 25-59;
\* Raised when no area loads (line 96)
load_legacy_city_network(city, env) ==
    LET areas == LEGACY_CITY_PARAMS[Str(str_lower(city))].boroughs
        rows == legacy_city_streets(env, 1, areas)
    IN  IF rows = <<>> THEN Raised ELSE [rows |-> rows]

\* the bug of answering a failed download with a network of no segment
load_generic_city_network_empty(city, env) ==
    [rows |-> seed_streets(PlaceEdges(env, 1))]

\* _load_generic_city_network, lines 42-57
load_generic_city_network(city, env) ==
    IF PlaceEdges(env, 1) = <<>> THEN Raised
    ELSE [rows |-> seed_streets(PlaceEdges(env, 1))]

\* line 33: a legacy city whose entry has 'boroughs'
HasBoroughs(city) ==
    /\ IsLegacy(city)
    /\ "boroughs" \in DOMAIN LEGACY_CITY_PARAMS[Str(str_lower(city))]

\* load_street_network, lines 14-40: [streets, cache, source]
load_street_network(city, cache, env) ==
    LET cache_file == clean_city_name(city)
    IN  IF cache[cache_file].kind = "geojson"
        THEN [streets |-> ReadStreets(cache[cache_file]), cache |-> cache,
              source |-> "cache"]
        ELSE LET loaded == IF HasBoroughs(city)
                           THEN load_legacy_city_network(city, env)
                           ELSE load_generic_city_network(city, env)
             IN  IF IsRaised(loaded) \/ ~env.save_ok
                 THEN [streets |-> EmptyFrame, cache |-> cache,
                       source |-> "failed"]
                 ELSE [streets |-> loaded.rows,
                       cache |-> [cache EXCEPT
                                     ![cache_file] = StoredStreets(loaded.rows)],
                       source |-> "download"]

LoaderIdle == streets_cache = EmptyStreetCache /\ load_call = NoCall

-----------------------------------------------------------------------------
(* process_walk_files of data/walk_processor.py, and what main of          *)
(* scripts/process.py calls besides                                        *)

\* a walking file whose timestamps run backwards
BackwardsFile ==
    TcxFile(TRUE, "Walking",
            <<Trackpoint("ok", 60, TRUE, "ok", 40, "ok", -74),
              Trackpoint("ok", 0, TRUE, "ok", 41, "ok", -73)>>, "e.tcx")

\* the files data/raw can hold when main runs, in the order glob lists them
RawFiles ==
    <<TcxFile(TRUE, "Walking",
              <<Trackpoint("ok", 0, TRUE, "ok", 40, "ok", -74),
                Trackpoint("ok", 60, TRUE, "ok", 41, "ok", -73)>>, "a.tcx"),
      TcxFile(TRUE, "Running",
              <<Trackpoint("ok", 0, TRUE, "ok", 40, "ok", -74),
                Trackpoint("ok", 60, TRUE, "ok", 41, "ok", -73)>>, "b.tcx"),
      TcxFile(FALSE, "", <<>>, "d.tcx"),
      BackwardsFile>>

RECURSIVE Listing(_, _)
Listing(i, present) ==
    IF i > Len(RawFiles) THEN <<>>
    ELSE (IF i \in present THEN <<RawFiles[i]>> ELSE <<>>)
            \o Listing(i + 1, present)

\* the listings of data/raw that main is run on
RawDirectories ==
    { Listing(1, present) : present \in { S \in SUBSET DOMAIN RawFiles :
                                            Cardinality(S) <= MaxFiles } }

\* lines 77-87: duration >= MIN_WALK_DURATION (0); the length of a geometry
\* is never below MIN_WALK_DISTANCE (0)
KeepsWalk(walk_data) == walk_data.end_time - walk_data.start_time >= 0

\* lines 69-87: the tracks of the files, None and the filtered ones left out
RECURSIVE collect_walks(_)
collect_walks(tcx_files) ==
    IF tcx_files = <<>> THEN <<>>
    ELSE LET walk_data == parse_tcx_file(Head(tcx_files))
         IN  (IF IsTrack(walk_data) /\ KeepsWalk(walk_data)
              THEN <<walk_data>> ELSE <<>>)
             \o collect_walks(Tail(tcx_files))

\* the bug of building the frame from an empty list
process_walk_files_unguarded(tcx_files) ==
    LET walks == collect_walks(tcx_files)
    IN  IF ValidWalksFrameRaises(walks)
        THEN [outcome |-> "raised", walks |-> <<>>, crs |-> ""]
        ELSE [outcome |-> "returned", walks |-> walks, crs |-> "EPSG:4326"]

\* process_walk_files, lines 67-96: gpd.GeoDataFrame() when there is no walk
\* (lines 89-90), the frame of the walks otherwise
process_walk_files(tcx_files) ==
    LET walks == collect_walks(tcx_files)
    IN  IF walks = <<>>
        THEN [outcome |-> "returned", walks |-> <<>>, crs |-> ""]
        ELSE [outcome |-> "returned", walks |-> walks, crs |-> "EPSG:4326"]

\* what OpenStreetMap does during validate_city_name: the download raises,
\* or gives a graph of that many nodes
ValidationEnvironments == [fails : BOOLEAN, nodes : {0, 10, 11}]

\* validate_city_name, city_analyzer.py lines 262-288
validate_city_name(city_name, env) ==
    IF env.fails THEN FALSE ELSE env.nodes > 10

\* osmnx.settings after validate_city_name: line 277 sets the timeout to 30,
\* line 282 puts old_timeout back, and is not reached when line 279 raises
validate_city_name_settings(settings, env) ==
    LET old_timeout == settings.timeout
    IN  IF env.fails THEN [settings EXCEPT !.timeout = 30]
        ELSE [settings EXCEPT !.timeout = old_timeout]

\* the bug of leaving the cached entry in place
clear_cached_parameters_keep(city, cache) == cache

\* process.py lines 92-96: the cache file of the city is removed if there is one
clear_cached_parameters(city, cache) ==
    [cache EXCEPT ![main_clean_name(city)] = Absent]

\* main before it starts: the arguments of the command line, and what the
\* city's parameter cache file held at that moment
MainStart(city, validate_only, force_reanalysis, cached_before) ==
    [pc |-> "validate", city |-> city, validate_only |-> validate_only,
     force_reanalysis |-> force_reanalysis, cached_before |-> cached_before,
     env |-> <<>>,
     city_params |-> <<>>, walks_gdf |-> <<>>, streets_gdf |-> <<>>,
     exit |-> "", log |-> <<>>, files |-> {}]

MainIdle == main = [pc |-> "idle"]

\* no track is being classified
ClassifierIdle == classify_call = NoCall

\* osmnx as imported, its timeout the library's default of 180 seconds, and
\* no call of validate_city_name yet
ValidateIdle == ox_settings = [timeout |-> 180] /\ validate_call = NoCall

-----------------------------------------------------------------------------
(* process_data.py: is_probable_transit, lines 172-250 *)

\* a track as a classifier sees it: a walk of the matcher's kind, the number
\* of its coordinates, and the percentage of its length that lies on the
\* streets of data/raw/nyc_streets.geojson (0 when no street is near it)
ClassifierTrack(runs, extra, closed, dur, points, following) ==
    [runs |-> runs, extra |-> extra, closed |-> closed, dur |-> dur,
     points |-> points, following |-> following]

\* the shapes tried: <<runs, extra, closed>> of straight lines, of loops that
\* end where they began, and of winding tracks that end 100 m from their start
TrackShapes ==
    { <<<<Iv(0, len)>>, 0, FALSE>> : len \in {100, 600, 2500, 6000} }
    \cup { <<<<Iv(0, 100)>>, len - 100, TRUE>> : len \in {600, 2500, 6000} }
    \cup { <<<<Iv(0, 100)>>, len - 100, FALSE>> : len \in {600, 2500, 6000} }

\* a track of two points is a straight line
ClassifierTracks ==
    { track \in
        { ClassifierTrack(shape[1], shape[2], shape[3], dur, points, following) :
            shape \in TrackShapes,
            dur \in {-60, 0, 100, 1000, 20000, 100000},
            points \in {2, 40, 400},
            following \in {0, 29, 30, 100} } :
        track.points > 2 \/ (track.extra = 0 /\ ~track.closed) }

\* avg_speed > MAX_WALKING_SPEED (7 km/h), lines 185 and 199-205, with
\* avg_speed = (distance / 1000) / (duration / 3600), 0 when duration <= 0
FasterThanWalking(walk_data) ==
    duration(walk_data) > 0 /\ distance(walk_data) * 36 > 70 * duration(walk_data)

\* sinuosity < MIN_SINUOSITY (1.05), lines 188-191: the path length comes
\* from the projected geometry (metres), straight_distance from the
\* coordinates as they are (degrees); 1 when straight_distance is 0
SinuosityBelowMinimum(walk_data) == ~SinuosityNatural(walk_data)

\* point_density < MIN_POINT_DENSITY (50 per km), line 194; 0 when distance is 0
PointDensityLow(walk_data) ==
    IF distance(walk_data) > 0
    THEN walk_data.points * 1000 < 50 * distance(walk_data)
    ELSE TRUE

\* distance > 0.5 km, lines 207 and 212
LongerThanHalfKm(walk_data) == distance(walk_data) > 500

\* is_transit of lines 205-210
BasicTransitIndicators(walk_data) ==
    \/ FasterThanWalking(walk_data)
    \/ /\ SinuosityBelowMinimum(walk_data)
       /\ LongerThanHalfKm(walk_data)
       /\ PointDensityLow(walk_data)

\* is_probable_transit(walk_data), walk_data not None:
\* [outcome, is_transit, street_following]; street_following is the
\* percentage of lines 223-232 or -1 when it was not computed.  Line 215
\* reads the street file, and raises when it cannot.
is_probable_transit(walk_data, streets_file_ok) ==
    LET is_transit == BasicTransitIndicators(walk_data)
    IN  IF ~is_transit /\ SinuosityBelowMinimum(walk_data)
           /\ LongerThanHalfKm(walk_data)
        THEN IF ~streets_file_ok
             THEN [outcome |-> "raised", is_transit |-> FALSE,
                   street_following |-> -1]
             ELSE [outcome |-> "returned",
                   is_transit |-> walk_data.following < 30,
                   street_following |-> walk_data.following]
        ELSE [outcome |-> "returned", is_transit |-> is_transit,
              street_following |-> -1]

-----------------------------------------------------------------------------
(* The calls a user of walk_processor.py makes *)

NoResult == [outcome |-> "none", error |-> "", streets |-> <<>>, walks |-> <<>>]

Init ==
    /\ walks_gdf \in WalkInputs
    /\ streets_gdf \in StreetInputs
    /\ call_args = 0
    /\ call_city = ""
    /\ result = NoResult
    /\ first_result = NoResult
    /\ rerun = FALSE
    /\ streets_in = streets_gdf
    /\ ParamsIdle
    /\ ParseIdle
    /\ PoolIdle
    /\ LoaderIdle
    /\ MainIdle
    /\ ClassifierIdle
    /\ ValidateIdle

\* analyze_walks(walks_gdf, streets_gdf): the signature of line 98, with the
\* batch size of line 158 or any smaller one
AnalyzeWalks ==
    /\ \E size \in BatchSizes :
          result' = analyze_walks(walks_gdf, streets_gdf, size)
    /\ streets_gdf' = CallerStreets(streets_gdf, WorkingStreets(streets_gdf))
    /\ first_result' = IF first_result = NoResult THEN result' ELSE first_result
    /\ rerun' = (rerun \/ first_result # NoResult)
    /\ call_args' = 2
    /\ call_city' = ""
    /\ UNCHANGED <<walks_gdf, streets_in>>
    /\ UNCHANGED <<params_vars, parse_vars, pool_vars, loader_vars, main,
                   classify_call, validate_vars>>

\* analyze_walks(walks_gdf, streets_gdf, city): the call of process.py line
\* 153, run_coverage_analysis.py line 35 and test_walk_processor.py line 93.
\* The function of line 98 takes two positional arguments: Python raises
\* TypeError before the body runs.
AnalyzeWalksCity ==
    /\ \E city \in Cities : call_city' = city
    /\ result' = [outcome |-> "raised", error |-> "TypeError",
                  streets |-> <<>>, walks |-> <<>>]
    /\ call_args' = 3
    /\ UNCHANGED <<walks_gdf, streets_gdf, first_result, rerun, streets_in>>
    /\ UNCHANGED <<params_vars, parse_vars, pool_vars, loader_vars, main,
                   classify_call, validate_vars>>

\* analyze_walks as its signature (line 98) has it
Next == AnalyzeWalks

Spec == Init /\ [][Next]_vars

\* analyze_walks as its callers call it
NextCallers == AnalyzeWalksCity

SpecCallers == Init /\ [][NextCallers]_vars

\* walks that cover a part of a street: two over the same 100 m, one over
\* another 50 m, and one too fast to be kept
CoverageWalkTypes ==
    { Walk(<<Iv(0, 100)>>, 0, FALSE, 100),
      Walk(<<Iv(0, 100)>>, 0, FALSE, 200),
      Walk(<<Iv(150, 200)>>, 0, FALSE, 101),
      Walk(<<Iv(0, 100)>>, 0, FALSE, 10) }

CoverageStreetTypes ==
    { [lo |-> 0, hi |-> 200, covered |-> FALSE, coverage_percent |-> <<0, 1>>],
      [lo |-> 0, hi |-> 100, covered |-> FALSE, coverage_percent |-> <<0, 1>>] }

\* analyze_walks on streets that the walks cover in part
InitCoverage ==
    /\ walks_gdf \in
          { ws \in SeqsUpTo(CoverageWalkTypes, MaxWalks) :
              \A i \in 1..(Len(ws) - 1) :
                  KeyLeq(WalkKey(ws[i]), WalkKey(ws[i + 1])) }
    /\ streets_gdf \in
          { [i \in DOMAIN ss |->
                Street(i - 1, ss[i].lo, ss[i].hi, ss[i].covered,
                       ss[i].coverage_percent)] :
            ss \in SeqsUpTo(CoverageStreetTypes, MaxStreets) }
    /\ call_args = 0
    /\ call_city = ""
    /\ result = NoResult
    /\ first_result = NoResult
    /\ rerun = FALSE
    /\ streets_in = streets_gdf
    /\ ParamsIdle
    /\ ParseIdle
    /\ PoolIdle
    /\ LoaderIdle
    /\ MainIdle
    /\ ClassifierIdle
    /\ ValidateIdle

SpecCoverage == InitCoverage /\ [][Next]_vars

-----------------------------------------------------------------------------
(* The calls a user of the parameter store makes *)

\* the state of the matcher while another component is exercised
MatcherIdle ==
    /\ walks_gdf = <<>>
    /\ streets_gdf = <<>>
    /\ call_args = 0
    /\ call_city = ""
    /\ result = NoResult
    /\ first_result = NoResult
    /\ rerun = FALSE
    /\ streets_in = <<>>

\* the cache directory is empty, or holds one file that cannot be read
InitParams ==
    /\ MatcherIdle
    /\ \/ city_cache = EmptyCache
       \/ \E k \in CacheKeys : city_cache = [EmptyCache EXCEPT ![k] = Unreadable]
    /\ params_call = NoCall
    /\ ParseIdle
    /\ PoolIdle
    /\ LoaderIdle
    /\ MainIdle
    /\ ClassifierIdle
    /\ ValidateIdle

\* config.get_city_parameters(city)
GetCityParameters ==
    /\ \E city \in CityNames, env \in Environments :
          LET r == get_city_parameters(city, city_cache, env)
          IN  /\ params_call' = [op |-> "get_city_parameters", city |-> city,
                                 env |-> env, outcome |-> r.outcome,
                                 params |-> r.params, log |-> r.log,
                                 cache_before |-> city_cache]
              /\ city_cache' = r.cache
    /\ UNCHANGED <<matcher_vars, parse_vars, pool_vars, loader_vars, main,
                   classify_call, validate_vars>>

\* CityAnalyzer(city).analyze_city()
AnalyzeCity ==
    /\ \E env \in Analyses :
          LET r == analyze_city(env)
          IN  params_call' = [op |-> "analyze_city", env |-> env,
                              outcome |-> r.outcome, params |-> r.params,
                              log |-> r.steps]
    /\ UNCHANGED <<city_cache, matcher_vars, parse_vars, pool_vars, loader_vars,
                   main,
                   classify_call, validate_vars>>

NextParams == GetCityParameters \/ AnalyzeCity

SpecParams == InitParams /\ [][NextParams]_vars

-----------------------------------------------------------------------------
(* The parameter store: get and put by get_city_parameters, invalidation
   by the forced refresh of scripts/process.py *)

InitStore ==
    /\ MatcherIdle
    /\ \/ city_cache = EmptyCache
       \/ city_cache = [EmptyCache EXCEPT !["new_york"] = Unreadable]
    /\ params_call = NoCall
    /\ ParseIdle
    /\ PoolIdle
    /\ LoaderIdle
    /\ MainIdle
    /\ ClassifierIdle
    /\ ValidateIdle

\* config.get_city_parameters(city) for one of the names of the key
StoreGet ==
    /\ \E city \in StoreNames, env \in Environments :
          LET r == get_city_parameters(city, city_cache, env)
          IN  /\ params_call' = [op |-> "get_city_parameters", city |-> city,
                                 env |-> env, outcome |-> r.outcome,
                                 params |-> r.params, log |-> r.log,
                                 cache_before |-> city_cache]
              /\ city_cache' = r.cache
    /\ UNCHANGED <<matcher_vars, parse_vars, pool_vars, loader_vars, main,
                   classify_call, validate_vars>>

\* process.py lines 90-97 on a run with --force-reanalysis
StoreInvalidate ==
    /\ \E city \in StoreNames :
          /\ city_cache' = clear_cached_parameters(city, city_cache)
          /\ params_call' = [op |-> "invalidate", city |-> city,
                             cache_before |-> city_cache]
    /\ UNCHANGED <<matcher_vars, parse_vars, pool_vars, loader_vars, main,
                   classify_call, validate_vars>>

NextStore == StoreGet \/ StoreInvalidate

SpecStore == InitStore /\ [][NextStore]_vars

-----------------------------------------------------------------------------
(* The classifiers on one track *)

InitClassifier ==
    /\ MatcherIdle
    /\ ParamsIdle
    /\ ParseIdle
    /\ PoolIdle
    /\ LoaderIdle
    /\ MainIdle
    /\ \E track \in ClassifierTracks :
          classify_call = [op |-> "track", track |-> track]
    /\ ValidateIdle

\* the filter of analyze_walks (walk_processor.py lines 105-134) on the
\* track, with the metrics it computed
ClassifyInAnalyzeWalks ==
    /\ classify_call.op = "track"
    /\ LET walk == classify_call.track
       IN  classify_call' =
               [op |-> "analyze_walks", track |-> walk,
                outcome |-> "returned",
                is_walk |-> IsValidWalk(walk, AnalysisParams),
                straight |-> ~SinuosityNatural(walk),
                street_following |-> -1]
    /\ UNCHANGED <<matcher_vars, params_vars, parse_vars, pool_vars, loader_vars,
                   main, validate_vars>>

\* is_probable_transit(walk_data) of process_data.py on the track
IsProbableTransit ==
    /\ classify_call.op = "track"
    /\ \E streets_file_ok \in BOOLEAN :
          LET walk_data == classify_call.track
              r == is_probable_transit(walk_data, streets_file_ok)
          IN  classify_call' =
                  [op |-> "is_probable_transit", track |-> walk_data,
                   outcome |-> r.outcome,
                   is_walk |-> r.outcome = "returned" /\ ~r.is_transit,
                   straight |-> SinuosityBelowMinimum(walk_data),
                   street_following |-> r.street_following]
    /\ UNCHANGED <<matcher_vars, params_vars, parse_vars, pool_vars, loader_vars,
                   main, validate_vars>>

NextClassifier == ClassifyInAnalyzeWalks \/ IsProbableTransit

SpecClassifier == InitClassifier /\ [][NextClassifier]_vars

-----------------------------------------------------------------------------
(* validate_city_name and the settings of osmnx *)

\* values osmnx.settings.timeout can have when validate_city_name is called
Timeouts == {10, 30, 60, 120, 180, 300}

InitValidate ==
    /\ MatcherIdle
    /\ ParamsIdle
    /\ ParseIdle
    /\ PoolIdle
    /\ LoaderIdle
    /\ MainIdle
    /\ ClassifierIdle
    /\ \E timeout \in Timeouts : ox_settings = [timeout |-> timeout]
    /\ validate_call = NoCall

\* validate_city_name(city_name)
ValidateCityName ==
    /\ \E city_name \in CityNames, env \in ValidationEnvironments :
          /\ validate_call' = [op |-> "validate_city_name", city_name |-> city_name,
                               env |-> env,
                               returned |-> validate_city_name(city_name, env),
                               timeout_before |-> ox_settings.timeout]
          /\ ox_settings' = validate_city_name_settings(ox_settings, env)
    /\ UNCHANGED <<matcher_vars, params_vars, parse_vars, pool_vars, loader_vars,
                   main, classify_call>>

NextValidate == ValidateCityName

SpecValidate == InitValidate /\ [][NextValidate]_vars

-----------------------------------------------------------------------------
(* The estimator on its own *)

\* an analyzer was constructed for a city whose network is one of
\* EstimatorAnalyses
InitEstimator ==
    /\ MatcherIdle
    /\ city_cache = EmptyCache
    /\ \E env \in EstimatorAnalyses :
          params_call = [op |-> "CityAnalyzer", env |-> env]
    /\ ParseIdle
    /\ PoolIdle
    /\ LoaderIdle
    /\ MainIdle
    /\ ClassifierIdle
    /\ ValidateIdle

\* CityAnalyzer(city).analyze_city(), the characteristics it found included
EstimateCity ==
    /\ params_call.op = "CityAnalyzer"
    /\ LET env == params_call.env
           r == analyze_city(env)
       IN  params_call' = [op |-> "analyze_city", env |-> env,
                           outcome |-> r.outcome, params |-> r.params,
                           log |-> r.steps,
                           characteristics |-> r.characteristics]
    /\ UNCHANGED <<city_cache, matcher_vars, parse_vars, pool_vars, loader_vars,
                   main,
                   classify_call, validate_vars>>

NextEstimator == EstimateCity

SpecEstimator == InitEstimator /\ [][NextEstimator]_vars

-----------------------------------------------------------------------------
(* The calls a user of the parsers makes *)

InitParse ==
    /\ MatcherIdle
    /\ ParamsIdle
    /\ tcx_file \in TcxFiles
    /\ parse_call = NoCall
    /\ PoolIdle
    /\ LoaderIdle
    /\ MainIdle
    /\ ClassifierIdle
    /\ ValidateIdle

\* walk_processor.parse_tcx_file(tcx_file)
ParseTcxFile ==
    /\ parse_call' = [op |-> "walk_processor", value |-> parse_tcx_file(tcx_file)]
    /\ UNCHANGED <<tcx_file, matcher_vars, params_vars, pool_vars, loader_vars,
                   main,
                   classify_call, validate_vars>>

\* process_data.parse_tcx_file(tcx_file)
ScriptParseTcxFile ==
    /\ parse_call' = [op |-> "process_data", value |-> script_parse_tcx_file(tcx_file)]
    /\ UNCHANGED <<tcx_file, matcher_vars, params_vars, pool_vars, loader_vars,
                   main,
                   classify_call, validate_vars>>

NextParse == ParseTcxFile \/ ScriptParseTcxFile

SpecParse == InitParse /\ [][NextParse]_vars

-----------------------------------------------------------------------------
(* parallel_process_walk_files *)

InitParallel ==
    /\ MatcherIdle
    /\ ParamsIdle
    /\ ParseIdle
    /\ directory \in Directories
    /\ pool = [pc |-> "idle"]
    /\ LoaderIdle
    /\ MainIdle
    /\ ClassifierIdle
    /\ ValidateIdle

\* lines 21-32: the call with n_workers given, or None (0 here) and
\* cpu_count cores
ParallelStart ==
    /\ pool.pc = "idle"
    /\ \E n_workers \in 0..MaxWorkers, cpu_count \in 1..MaxWorkers :
          pool' = IF directory = <<>>
                  THEN [pc |-> "done", walks |-> <<>>]
                  ELSE [pc |-> "running",
                        n_workers |-> IF n_workers = 0
                                      THEN Min(cpu_count, Len(directory))
                                      ELSE n_workers,
                        pending |-> DOMAIN directory,
                        running |-> [w \in 1..MaxWorkers |-> 0],
                        results |-> [i \in DOMAIN directory |-> Todo],
                        finished |-> <<>>]
    /\ UNCHANGED <<directory, matcher_vars, params_vars, parse_vars, loader_vars,
                   main,
                   classify_call, validate_vars>>

\* a free worker process takes a file of the list
WorkerTake(w) ==
    /\ pool.pc = "running"
    /\ w <= pool.n_workers
    /\ pool.running[w] = 0
    /\ \E i \in pool.pending :
          pool' = [pool EXCEPT !.pending = @ \ {i}, !.running[w] = i]
    /\ UNCHANGED <<directory, matcher_vars, params_vars, parse_vars, loader_vars,
                   main,
                   classify_call, validate_vars>>

\* the worker runs process_tcx_file_wrapper on its file and hands the
\* result back
WorkerParse(w) ==
    /\ pool.pc = "running"
    /\ pool.running[w] # 0
    /\ LET i == pool.running[w]
       IN  pool' = [pool EXCEPT
                      !.results[i] = process_tcx_file_wrapper(directory[i]),
                      !.finished = Append(@, i),
                      !.running[w] = 0]
    /\ UNCHANGED <<directory, matcher_vars, params_vars, parse_vars, loader_vars,
                   main,
                   classify_call, validate_vars>>

\* lines 36-43: pool.map returns when every file is done
ParallelReturn ==
    /\ pool.pc = "running"
    /\ pool.pending = {}
    /\ \A w \in 1..MaxWorkers : pool.running[w] = 0
    /\ pool' = [pc |-> "done", n_workers |-> pool.n_workers,
                finished |-> pool.finished,
                walks |-> drop_none(pool_map(pool.results, pool.finished))]
    /\ UNCHANGED <<directory, matcher_vars, params_vars, parse_vars, loader_vars,
                   main,
                   classify_call, validate_vars>>

NextParallel ==
    \/ ParallelStart
    \/ \E w \in 1..MaxWorkers : WorkerTake(w)
    \/ \E w \in 1..MaxWorkers : WorkerParse(w)
    \/ ParallelReturn

SpecParallel == InitParallel /\ [][NextParallel]_vars

-----------------------------------------------------------------------------
(* The calls a user of the street loader makes *)

\* no cached network, or one cache file that cannot be read
InitLoader ==
    /\ MatcherIdle
    /\ ParamsIdle
    /\ ParseIdle
    /\ PoolIdle
    /\ MainIdle
    /\ ClassifierIdle
    /\ ValidateIdle
    /\ \/ streets_cache = EmptyStreetCache
       \/ \E k \in StreetCacheKeys :
             streets_cache = [EmptyStreetCache EXCEPT ![k] = Unreadable]
    /\ load_call = NoCall

\* load_street_network(city)
LoadStreetNetwork ==
    /\ \E city \in CityNames, env \in LoaderEnvironments :
          LET r == load_street_network(city, streets_cache, env)
          IN  /\ load_call' = [op |-> "load_street_network", city |-> city,
                               env |-> env, streets |-> r.streets,
                               source |-> r.source]
              /\ streets_cache' = r.cache
    /\ UNCHANGED <<matcher_vars, params_vars, parse_vars, pool_vars, main,
                   classify_call, validate_vars>>

NextLoader == LoadStreetNetwork

SpecLoader == InitLoader /\ [][NextLoader]_vars

-----------------------------------------------------------------------------
(* main of scripts/process.py, step by step *)

\* a value the estimator can have left in the cache on an earlier run
StaleEntries ==
    { Stored(analyze_city(a).params) :
        a \in { e \in Analyses : e.fails \in {"none", "download"} } }

\* the command line, and the parameter cache as earlier runs left it: empty,
\* or with a file under the city's name
InitMain ==
    /\ MatcherIdle
    /\ params_call = NoCall
    /\ ParseIdle
    /\ PoolIdle
    /\ LoaderIdle
    /\ ClassifierIdle
    /\ ValidateIdle
    /\ \E city \in CityNames, validate_only \in BOOLEAN,
          force_reanalysis \in BOOLEAN :
          \E entry \in StaleEntries \cup {Unreadable, Absent} :
             /\ main = MainStart(city, validate_only, force_reanalysis, entry)
             /\ city_cache = [EmptyCache EXCEPT ![clean_name(city)] = entry]

Exit(m, how) == [m EXCEPT !.pc = "exited", !.exit = how]

\* lines 48-86: a legacy city is taken as valid, any other is validated
\* with OpenStreetMap; sys.exit(1) when that fails; return on --validate-only
MainValidate ==
    /\ main.pc = "validate"
    /\ \E env \in ValidationEnvironments :
          LET m == [main EXCEPT !.log = Append(@, "validate"), !.env = env]
          IN  main' = IF ~IsLegacy(main.city) /\ ~validate_city_name(main.city, env)
                      THEN Exit(m, "exit 1: city not found")
                      ELSE IF main.validate_only THEN Exit(m, "return")
                      ELSE [m EXCEPT !.pc = "clear_cache"]
    /\ ox_settings' = IF IsLegacy(main.city) THEN ox_settings
                      ELSE validate_city_name_settings(ox_settings, main'.env)
    /\ UNCHANGED <<classify_call, validate_call>>
    /\ UNCHANGED <<city_cache, params_call, matcher_vars, parse_vars, pool_vars,
                   loader_vars>>

\* lines 88-97: --force-reanalysis removes the city's cache file
MainClearCache ==
    /\ main.pc = "clear_cache"
    /\ city_cache' = IF main.force_reanalysis
                     THEN clear_cached_parameters(main.city, city_cache)
                     ELSE city_cache
    /\ main' = [main EXCEPT !.pc = "get_parameters",
                            !.log = Append(@, "clear_cache"), !.env = <<>>]
    /\ UNCHANGED <<classify_call, validate_vars>>
    /\ UNCHANGED <<params_call, matcher_vars, parse_vars, pool_vars, loader_vars>>

\* lines 99-110: get_city_parameters, the defaults if it raises
MainGetParameters ==
    /\ main.pc = "get_parameters"
    /\ \E env \in Environments :
          LET r == get_city_parameters(main.city, city_cache, env)
          IN  /\ main' = [main EXCEPT
                            !.pc = "process_walks",
                            !.log = Append(@, "get_city_parameters"),
                            !.env = env,
                            !.city_params = IF r.outcome = "raised"
                                            THEN get_default_parameters
                                            ELSE r.params]
              /\ city_cache' = r.cache
    /\ UNCHANGED <<classify_call, validate_vars>>
    /\ UNCHANGED <<params_call, matcher_vars, parse_vars, pool_vars, loader_vars>>

\* lines 112-119: process_walk_files(RAW_DATA_DIR); sys.exit(1) when the
\* frame is empty
MainProcessWalks ==
    /\ main.pc = "process_walks"
    /\ \E tcx_files \in RawDirectories :
          LET r == process_walk_files(tcx_files)
              m == [main EXCEPT !.log = Append(@, "process_walk_files"),
                                !.env = tcx_files]
          IN  main' = IF r.outcome = "raised" THEN Exit(m, "exception")
                      ELSE IF r.walks = <<>> THEN Exit(m, "exit 1: no valid walks")
                      ELSE [m EXCEPT !.pc = "save_walks", !.walks_gdf = r.walks]
    /\ UNCHANGED <<classify_call, validate_vars>>
    /\ UNCHANGED <<city_cache, params_call, matcher_vars, parse_vars, pool_vars,
                   loader_vars>>

\* lines 121-127: the walks are written to processed_walks_<city>.geojson
MainSaveWalks ==
    /\ main.pc = "save_walks"
    /\ main' = [main EXCEPT
                  !.pc = "load_streets",
                  !.log = Append(@, "save_walks"), !.env = <<>>,
                  !.files = @ \cup {"processed_walks_" \o clean_city_name(main.city)}]
    /\ UNCHANGED <<classify_call, validate_vars>>
    /\ UNCHANGED <<city_cache, params_call, matcher_vars, parse_vars, pool_vars,
                   loader_vars>>

\* lines 129-149: load_street_network(city); sys.exit(1) when the frame is empty
MainLoadStreets ==
    /\ main.pc = "load_streets"
    /\ \E env \in LoaderEnvironments :
          LET r == load_street_network(main.city, streets_cache, env)
              m == [main EXCEPT !.log = Append(@, "load_street_network"),
                                !.env = env]
          IN  /\ main' = IF r.streets = <<>>
                         THEN Exit(m, "exit 1: no street network")
                         ELSE [m EXCEPT !.pc = "analyze", !.streets_gdf = r.streets]
              /\ streets_cache' = r.cache
    /\ UNCHANGED <<classify_call, validate_vars>>
    /\ UNCHANGED <<city_cache, params_call, load_call, matcher_vars, parse_vars,
                   pool_vars>>

\* lines 151-153: analyze_walks(walks_gdf, streets_gdf, city), a call with
\* three arguments of the function of two (walk_processor.py line 98): the
\* TypeError ends main, and lines 155-181 are never reached
MainAnalyze ==
    /\ main.pc = "analyze"
    /\ main' = Exit([main EXCEPT !.log = Append(@, "analyze_walks"), !.env = <<>>],
                    "TypeError")
    /\ UNCHANGED <<classify_call, validate_vars>>
    /\ UNCHANGED <<city_cache, params_call, matcher_vars, parse_vars, pool_vars,
                   loader_vars>>

NextMain ==
    \/ MainValidate
    \/ MainClearCache
    \/ MainGetParameters
    \/ MainProcessWalks
    \/ MainSaveWalks
    \/ MainLoadStreets
    \/ MainAnalyze

SpecMain == InitMain /\ [][NextMain]_vars

-----------------------------------------------------------------------------
(* Properties.  The definitions below restate what the specification says  *)
(* of a call, from the geometry alone: no batches, no spatial index.       *)

Returned == call_args = 2 /\ result.outcome = "returned"

\* the corridors of the walks the call accepted, by the buffer distance of
\* the city the call analyses
AcceptedCorridors ==
    [j \in DOMAIN result.walks |->
        Corridor(result.walks[j], CITY_PARAMS["new_york"].buffer_distance)]

\* the pieces of positive length street s has in common with corridor j
Pieces(s, j) ==
    { p \in Intersection({Iv(s.lo, s.hi)}, AcceptedCorridors[j]) : Length(p) > 0 }

ShortPieces(s, j) == { p \in Pieces(s, j) : Length(p) <= 500 }

RECURSIVE SumOver(_, _, _)
SumOver(F(_, _), s, j) ==
    IF j = 0 THEN 0 ELSE SumLengths(F(s, j)) + SumOver(F, s, j - 1)

\* covered_length of the specification: retained pieces over all corridors
CoveredLength(s) == SumOver(ShortPieces, s, Len(result.walks))

\* the same sum with no piece discarded
OverlapLength(s) == SumOver(Pieces, s, Len(result.walks))

ResultIds == { result.streets[k].street_id : k \in DOMAIN result.streets }

RowOf(s) == CHOOSE r \in { result.streets[k] : k \in DOMAIN result.streets } :
                r.street_id = s.street_id

InputStreets == { streets_in[k] : k \in DOMAIN streets_in }

\* avg_speed > m/10 metres per second times 1.2
ExceedsSpeed(walk, m) ==
    duration(walk) > 0 /\ distance(walk) * 100 > m * 12 * duration(walk)

\* max_walking_speed of every parameter set the program produces: the legacy
\* table, the defaults, and the estimator's grid value (city_analyzer.py
\* line 182)
MaxWalkingSpeeds ==
    { CITY_PARAMS[c].max_walking_speed : c \in DOMAIN CITY_PARAMS }
    \cup { get_default_parameters.max_walking_speed, 35 }

C2_PercentInRange ==
    Returned =>
        \A k \in DOMAIN result.streets :
            LET p == result.streets[k].coverage_percent
            IN  p[2] > 0 /\ FracLeq(<<0, 1>>, p) /\ FracLeq(p, <<100, 1>>)

\* a covered segment whose retained pieces sum to more than its length
C2_Witness ==
    /\ Returned
    /\ \E s \in InputStreets :
          /\ CoveredLength(s) > Length(s)
          /\ s.street_id \in ResultIds

\* C3: an intersection piece longer than 500 m adds nothing to a segment's
\* covered length, and a segment whose only pieces are longer than 500 m is
\* not reported as covered.
C3_LongPieceNotCounted ==
    Returned =>
        \A s \in InputStreets :
            /\ s.street_id \in ResultIds =>
                  /\ CoveredLength(s) > 0
                  /\ FracLeq(RowOf(s).coverage_percent,
                             <<100 * CoveredLength(s), Length(s)>>)
            /\ CoveredLength(s) = 0 => s.street_id \notin ResultIds

\* a segment with a piece longer than 500 m from an accepted walk, and none
\* shorter, was analysed
C3_Witness ==
    /\ Returned
    /\ \E s \in InputStreets :
          /\ OverlapLength(s) > 500
          /\ CoveredLength(s) = 0
          /\ s.street_id \notin ResultIds

\* the bounds of street s meet the bounds of no accepted corridor
OutsideAllCorridors(s) ==
    \A j \in DOMAIN result.walks :
        LET c == AcceptedCorridors[j]
        IN  s.hi < c[1].lo \/ c[Len(c)].hi < s.lo

\* C4: a segment that lies outside the bounding boxes of all walk corridors
\* is never reported as covered, whatever segments share its batch.
C4_OutsideNotCovered ==
    Returned =>
        \A s \in InputStreets : OutsideAllCorridors(s) => s.street_id \notin ResultIds

\* such a segment was analysed together with a segment that is covered
C4_Witness ==
    /\ Returned
    /\ \E s \in InputStreets : OutsideAllCorridors(s)
    /\ ResultIds # {}

\* C5 (as claimed): with no valid walk and at least one street the call
\* raises nothing and returns every street with covered = false.
C5_EmptyWalksAllUncovered ==
    (/\ call_args = 2
     /\ streets_in # <<>>
     /\ \A i \in DOMAIN walks_gdf : ~IsValidWalk(walks_gdf[i], CITY_PARAMS["new_york"]))
    => /\ result.outcome = "returned"
       /\ Len(result.streets) = Len(streets_in)
       /\ \A k \in DOMAIN result.streets : ~result.streets[k].covered

\* C6 (as claimed): the matcher given a street collection with no segments
\* reports an error.
C6_EmptyNetworkIsError ==
    (call_args = 2 /\ streets_in = <<>>) => result.outcome = "raised"

\* C7: the result is the same for every batch size (the call is made with
\* any of them, and gives what batches of one segment give): exactly the
\* segments that share a retained piece with some accepted corridor are
\* reported, no corridor is missed and none contributes to a segment it does
\* not meet.
C7_BatchSizeIrrelevant ==
    Returned =>
        /\ ResultIds = { s.street_id : s \in { t \in InputStreets :
                            Length(t) > 0 /\ CoveredLength(t) > 0 } }
        /\ result.streets = analyze_walks(walks_gdf, streets_in, 1).streets

\* the bounds of street s do not meet the bounds of corridor j
OutsideCorridor(s, j) ==
    LET c == AcceptedCorridors[j]
    IN  s.hi < c[1].lo \/ c[Len(c)].hi < s.lo

\* a corridor is a candidate through one segment only, and the other
\* segment, covered by another corridor, was analysed with it
C7_Witness ==
    /\ Returned
    /\ \E j \in DOMAIN result.walks :
          \E s \in InputStreets : \E t \in InputStreets :
              /\ OutsideCorridor(s, j)
              /\ ~OutsideCorridor(t, j)
              /\ s.street_id \in ResultIds

SeededStreets ==
    [k \in DOMAIN streets_in |->
        Street(streets_in[k].street_id, streets_in[k].lo, streets_in[k].hi,
               FALSE, <<0, 1>>)]

\* C8: a second run on the same inputs gives the result of the first, the
\* result does not depend on coverage values the input streets carry, and
\* the caller's street collection is left as it was.
C8_RerunIdempotent ==
    call_args = 2 =>
        /\ result = first_result
        /\ streets_gdf = streets_in
        /\ \E size \in BatchSizes :
              result = analyze_walks(walks_gdf, SeededStreets, size)

\* a second run over a street that came in marked covered at 50 percent
C8_Witness ==
    /\ Returned
    /\ rerun
    /\ \E s \in InputStreets :
          /\ s.covered
          /\ s.street_id \in ResultIds
          /\ RowOf(s).coverage_percent # s.coverage_percent

\* C9: for a segment of positive length coverage_percent is
\* min(100, 100 x covered_length / length) over the retained pieces of all
\* corridors, covered is true iff that is positive, and a segment of length
\* zero is never reported.
C9_PercentFormula ==
    Returned =>
        \A s \in InputStreets :
            IF Length(s) > 0 /\ 100 * CoveredLength(s) > 0
            THEN /\ s.street_id \in ResultIds
                 /\ RowOf(s).covered
                 /\ RowOf(s).coverage_percent =
                       IF CoveredLength(s) >= Length(s) THEN <<100, 1>>
                       ELSE Frac(100 * CoveredLength(s), Length(s))
            ELSE s.street_id \notin ResultIds

\* a partly covered segment and a segment of length zero inside a corridor
C9_Witness ==
    /\ Returned
    /\ \E s \in InputStreets :
          /\ s.street_id \in ResultIds
          /\ 0 < CoveredLength(s) /\ CoveredLength(s) < Length(s)
    /\ \E s \in InputStreets : Length(s) = 0 /\ ~OutsideAllCorridors(s)

\* C10 (as claimed): a call with a city name completes, and applies the
\* parameters of that city.
C10_CityCallReturns ==
    call_args = 3 =>
        /\ result.outcome = "returned"
        /\ call_city \in DOMAIN LEGACY_CITY_PARAMS =>
              AnalysisParams = LEGACY_CITY_PARAMS[call_city]


-----------------------------------------------------------------------------
(* Properties of the parameter store and the estimator *)

\* the fixed fallback set as the specification lists it
FixedFallback ==
    [buffer_distance |-> 8, max_walking_speed |-> 30, min_walking_speed |-> 1,
     max_sinuosity |-> 40, max_direct_distance |-> 15000, bbox |-> <<>>]

\* the legacy table's key for a city name that has one
LegacyKey(city) ==
    CASE city = <<"n", "e", "w", "_", "y", "o", "r", "k">> -> "new_york"
      [] city = <<"L", "o", "n", "d", "o", "n">> -> "london"
      [] OTHER -> ""

\* the cache file's key for a city name
NormalizedName(city) ==
    CASE city = <<"N", "e", "w", " ", "Y", "o", "r", "k", ",">> -> "new_york"
      [] OTHER -> LegacyKey(city)

ParamsCalled == params_call.op = "get_city_parameters"

RequiredFields ==
    {"buffer_distance", "max_walking_speed", "min_walking_speed",
     "max_sinuosity", "max_direct_distance", "bbox"}

\* C11: for a city outside the legacy table with no cached entry, a failed
\* download makes get_city_parameters return exactly the fixed fallback set,
\* and nothing is raised.
C11_DownloadFailureGivesFallback ==
    ( /\ ParamsCalled
      /\ LegacyKey(params_call.city) = ""
      /\ params_call.cache_before[NormalizedName(params_call.city)] = Absent
      /\ params_call.env.fails = "download" ) =>
        /\ params_call.outcome = "returned"
        /\ params_call.params = FixedFallback

\* such a call was made, and it did try the download
C11_Witness ==
    /\ ParamsCalled
    /\ LegacyKey(params_call.city) = ""
    /\ params_call.cache_before[NormalizedName(params_call.city)] = Absent
    /\ params_call.env.fails = "download"
    /\ \E i \in DOMAIN params_call.log : params_call.log[i] = "download"

\* C12: for a legacy city get_city_parameters returns the table's entry as it
\* is (six required fields, bbox of four numbers), runs no estimation or
\* download and neither reads nor writes the cache, cached entry or not.
C12_LegacyVerbatim ==
    (ParamsCalled /\ LegacyKey(params_call.city) # "") =>
        /\ params_call.outcome = "returned"
        /\ params_call.params = LEGACY_CITY_PARAMS[LegacyKey(params_call.city)]
        /\ RequiredFields \subseteq DOMAIN params_call.params
        /\ Len(params_call.params.bbox) = 4
        /\ params_call.log = <<>>
        /\ city_cache = params_call.cache_before

\* a legacy city was asked for while the cache held an entry under its name
C12_Witness ==
    /\ ParamsCalled
    /\ LegacyKey(params_call.city) # ""
    /\ params_call.cache_before[LegacyKey(params_call.city)].kind = "json"

Undisturbed(env) == analyze_city([env EXCEPT !.fails = "none"]).params

-----------------------------------------------------------------------------
(* Properties of the parsers *)

Parsed == parse_call.op # "none"

\* a sample that has both a time and a position
WithTimeAndPosition(tp) ==
    tp.time # "missing" /\ tp.position /\ tp.lat_text # "missing"
    /\ tp.lon_text # "missing"

\* a malformed or out-of-range sample
BadSample(tp) ==
    \/ tp.time = "malformed" \/ tp.lat_text = "malformed" \/ tp.lon_text = "malformed"
    \/ (tp.lat_text = "ok" /\ (tp.lat < -90 \/ tp.lat > 90))
    \/ (tp.lon_text = "ok" /\ (tp.lon < -180 \/ tp.lon > 180))

ValidSample(tp) == WithTimeAndPosition(tp) /\ ~BadSample(tp)

\* the samples a parser retains: walk_processor's every sample with a time
\* and a position, process_data's the valid ones
RetainedSamples ==
    IF parse_call.op = "walk_processor"
    THEN SelectSeq(tcx_file.trackpoints, WithTimeAndPosition)
    ELSE SelectSeq(tcx_file.trackpoints, ValidSample)

PointsOf(samples) == [i \in DOMAIN samples |-> <<samples[i].lon, samples[i].lat>>]

\* C14: a track comes out only of at least 2 samples with time and position;
\* its geometry has one point per retained sample in file order, start_time
\* and end_time are the first and last retained sample's times; fewer than 2
\* such samples give no value.
C14_TrackOfRetainedSamples ==
    Parsed =>
        /\ parse_call.value.kind = "track" =>
              /\ Len(RetainedSamples) >= 2
              /\ parse_call.value.geometry = PointsOf(RetainedSamples)
              /\ parse_call.value.start_time = RetainedSamples[1].t
              /\ parse_call.value.end_time =
                     RetainedSamples[Len(RetainedSamples)].t
        /\ Len(SelectSeq(tcx_file.trackpoints, WithTimeAndPosition)) < 2 =>
              parse_call.value = None

\* a track of two points came out of a file of three samples
C14_Witness ==
    /\ Parsed
    /\ parse_call.value.kind = "track"
    /\ Len(parse_call.value.geometry) = 2
    /\ Len(tcx_file.trackpoints) = 3

\* C15 (as claimed): a file with no activity, or whose activity is not
\* walking, yields no track.
C15_OnlyWalkingParsed ==
    (Parsed /\ tcx_file.sport # "Walking") => parse_call.value = None

\* C16 (as claimed): a malformed or out-of-range sample is never part of the
\* track, and the file still yields a track while 2 valid samples remain.
C16_BadSampleSkipped ==
    (Parsed /\ tcx_file.xml_ok /\ tcx_file.sport = "Walking") =>
        LET valid == SelectSeq(tcx_file.trackpoints, ValidSample)
        IN  /\ parse_call.value.kind = "track" =>
                  parse_call.value.geometry = PointsOf(valid)
            /\ Len(valid) >= 2 => parse_call.value.kind = "track"


-----------------------------------------------------------------------------
(* Properties of the worker pool *)

\* what each file of the list gives when parsed on its own
ParsedAlone == [i \in DOMAIN directory |-> parse_tcx_file(directory[i])]

\* the indices 1..n of a sequence in rising order
Rising(seq) == \A i \in 1..(Len(seq) - 1) : seq[i] < seq[i + 1]

\* C17: parallel_process_walk_files returns the tracks of the files that
\* parse, one per such file in the order of the file list, for any number of
\* workers; a file that fails is dropped and changes nothing else.
C17_TracksInListOrder ==
    /\ pool.pc # "raised"
    /\ pool.pc = "done" =>
          /\ pool.walks = SelectSeq(ParsedAlone, IsTrack)
          /\ \A k \in DOMAIN pool.walks :
                \E i \in DOMAIN directory :
                    pool.walks[k].source_file = directory[i].name
    /\ pool.pc = "running" =>
          \A i \in DOMAIN directory :
              pool.results[i] \in {Todo, ParsedAlone[i]}

\* several workers finished the files out of list order, one file failed
\* and two tracks came back
C17_Witness ==
    /\ pool.pc = "done"
    /\ Len(directory) >= 3
    /\ pool.n_workers >= 2
    /\ ~Rising(pool.finished)
    /\ Len(pool.walks) = 2
    /\ pool.walks[1].source_file = "b.tcx"


-----------------------------------------------------------------------------
(* Properties of the street loader *)

\* every segment is seeded and the identifiers are 0..n-1 in row order
SeededAndNumbered(rows) ==
    /\ \A i \in DOMAIN rows :
          /\ rows[i].covered = FALSE
          /\ rows[i].coverage_percent = <<0, 1>>
          /\ rows[i].street_id = i - 1
    /\ \A i, j \in DOMAIN rows :
          i # j => rows[i].street_id # rows[j].street_id

\* the street cache file's key for a city name
StreetFileName(city) ==
    CASE city = <<"L", "o", "n", "d", "o", "n">> -> "london"
      [] OTHER -> "new_york"

\* C19: a downloaded network has covered = false, coverage_percent = 0 and
\* distinct identifiers 0..n-1 on every segment, also when area networks are
\* concatenated, and a network read back from the cache is the one that was
\* downloaded, with the same identifiers and seeded fields.
C19_SeededDistinctIds ==
    /\ load_call.op = "load_street_network" =>
          /\ SeededAndNumbered(load_call.streets)
          /\ load_call.source = "download" =>
                /\ load_call.streets # <<>>
                /\ streets_cache[StreetFileName(load_call.city)]
                       = StoredStreets(load_call.streets)
          /\ load_call.source = "cache" =>
                load_call.streets
                    = ReadStreets(streets_cache[StreetFileName(load_call.city)])
    /\ \A k \in StreetCacheKeys :
          streets_cache[k].kind = "geojson" =>
              SeededAndNumbered(ReadStreets(streets_cache[k]))

\* the networks of the boroughs were concatenated, more than one segment to
\* some, and later read back from the cache
C19_Witness ==
    /\ load_call.op = "load_street_network"
    /\ load_call.source = "cache"
    /\ load_call.city = <<"L", "o", "n", "d", "o", "n">>
    /\ Len(load_call.streets) > 33

-----------------------------------------------------------------------------
(* The orchestrator: forced refresh and the run without walks *)

\* main has just returned from the named step
JustDid(step) == main.pc # "idle" /\ main.log # <<>> /\ main.log[Len(main.log)] = step

\* the file of the parameter cache the estimator reads and writes for main's city
EstimatorEntry == city_cache[clean_name(main.city)]

\* what one estimation yields in the surroundings main met at get_city_parameters
FreshEstimation == analyze_city(main.env).params

\* the entry was deleted when get_city_parameters is about to run
DeletedBeforeGetParameters ==
    main.pc = "get_parameters" /\ main.force_reanalysis => EstimatorEntry = Absent

NoTrackIn(tcx_files) ==
    \A i \in DOMAIN tcx_files : ~IsTrack(parse_tcx_file(tcx_files[i]))

\* C18: when data/raw holds no track file, or none that yields a track,
\* process_walk_files returns an empty frame without raising, and main exits
\* on it with its "no valid walks" message before it has loaded a street
\* network, run the matcher or written an output file.
C18_NoWalksExitsEarly ==
    JustDid("process_walk_files") /\ NoTrackIn(main.env)
        => /\ main.pc = "exited"
           /\ main.exit = "exit 1: no valid walks"
           /\ main.walks_gdf = <<>>
           /\ \A i \in DOMAIN main.log :
                 main.log[i] \notin {"save_walks", "load_street_network", "analyze_walks"}
           /\ main.files = {}
           /\ main.streets_gdf = <<>>
           /\ streets_cache = EmptyStreetCache

\* a run on a directory whose only files are unparseable has ended
C18_Witness ==
    /\ JustDid("process_walk_files")
    /\ main.env # <<>> /\ NoTrackIn(main.env)
    /\ main.pc = "exited"

-----------------------------------------------------------------------------
(* The estimator: threshold tables and grid score *)

\* an analysis has been run and no step made it fall back
Analysed ==
    /\ params_call.op = "analyze_city"
    /\ params_call.env.fails \notin {"download", "density", "structure"}

\* thousandths of the density the analysis found, as a comparison:
\* density > t / 1000
DensityAbove(t) ==
    LET net == params_call.env.net
    IN  net.area > 0 /\ 1000 * net.total_length > t * net.area

\* the complexity the analysis found exceeds 0.3
ComplexityAboveThreshold ==
    LET c == params_call.characteristics["intersection_complexity"]
    IN  10 * c[1] > 3 * c[2]

\* the analysis found a grid city
CityIsGrid ==
    /\ "is_grid" \in DOMAIN params_call.characteristics
    /\ params_call.characteristics["is_grid"]

\* C21: after a successful analysis the parameters are those of the threshold
\* tables: buffer 3 / 5 / 8 / 12 by density above 0.005 / 0.002 / 0.001 / else,
\* speeds (3.5, 0.2) for a grid city and (3.0, 0.1) otherwise, max_sinuosity 5.0
\* for a complexity above 0.3 and 3.5 otherwise, max_direct_distance 15000,
\* bbox the bounds of the network.
C21_ThresholdTables ==
    Analysed =>
        LET p == params_call.params
        IN  /\ p.buffer_distance = (IF DensityAbove(5) THEN 3
                                    ELSE IF DensityAbove(2) THEN 5
                                    ELSE IF DensityAbove(1) THEN 8 ELSE 12)
            /\ CityIsGrid => p.max_walking_speed = 35 /\ p.min_walking_speed = 2
            /\ ~CityIsGrid => p.max_walking_speed = 30 /\ p.min_walking_speed = 1
            /\ p.max_sinuosity = (IF ComplexityAboveThreshold THEN 50 ELSE 35)
            /\ p.max_direct_distance = 15000
            /\ p.bbox = params_call.env.net.bbox

\* a grid city with density exactly 0.005 and a third of its intersections complex
C21_Witness ==
    /\ Analysed
    /\ params_call.env.net.total_length = 5000
    /\ params_call.env.net.area = 1000000
    /\ CityIsGrid /\ ComplexityAboveThreshold
    /\ params_call.params.buffer_distance = 5
    /\ params_call.params.max_sinuosity = 50

\* the structure step ran on a network with segments
Scored ==
    /\ Analysed
    /\ "grid_score" \in DOMAIN params_call.characteristics

\* how many of the bearings satisfy the test, each bearing counted once
HowMany(bearings, Test(_)) ==
    Cardinality({ i \in DOMAIN bearings : Test(bearings[i]) })

\* the bucket of 10 degrees a bearing falls in
Bucket(bearing) == (bearing % 180) \div 10

\* within one bucket either side of the bucket of the direction
NearDirection(bearing, direction) ==
    \E d \in {-1, 0, 1} : Bucket(bearing) = (Bucket(direction) + d) % 18

NearSomeDirection(bearing) ==
    \E direction \in {0, 179, 45, 90, 135} : NearDirection(bearing, direction)

\* the buckets the code adds up, in degrees: [0, 10) and [170, 180),
\* [40, 60), [80, 100), [130, 150)
InCountedBuckets(bearing) ==
    LET b == bearing % 180
    IN  \/ b < 10 \/ b >= 170
        \/ 40 <= b /\ b < 60
        \/ 80 <= b /\ b < 100
        \/ 130 <= b /\ b < 150

\* score = mass / total, in [0, 1], and grid exactly when score > 0.4
ScoreIs(mass) ==
    LET score == params_call.characteristics["grid_score"]
        total == Len(params_call.env.net.bearings)
    IN  /\ score[2] = total
        /\ score[1] = mass
        /\ 0 <= score[1] /\ score[1] <= score[2]
        /\ params_call.characteristics["is_grid"] <=> (10 * score[1] > 4 * score[2])

\* C27 as stated: the grid score is the number of bearings within one bucket
\* either side of the buckets for 0/180, 45, 90 and 135 degrees, over the
\* number of bearings; it lies in [0, 1], no bearing is counted twice, and
\* the city is grid exactly when the score exceeds 0.4.
C27_GridScoreWindows ==
    Scored => ScoreIs(HowMany(params_call.env.net.bearings, NearSomeDirection))

\* C27, amended: the grid score is the number of bearings in the buckets
\* [0, 10) and [170, 180), [40, 60), [80, 100) and [130, 150) over the number
\* of bearings; it lies in [0, 1], no bearing is counted twice, and the city
\* is grid exactly when the score exceeds 0.4.
C27_GridScoreBuckets ==
    Scored => ScoreIs(HowMany(params_call.env.net.bearings, InCountedBuckets))

\* a network of a segment at 35 and one at 45 degrees scored 1/2
C27_Witness ==
    /\ Scored
    /\ params_call.env.net.bearings = <<35, 45>>
    /\ params_call.characteristics["grid_score"] = <<1, 2>>
    /\ params_call.characteristics["is_grid"]

-----------------------------------------------------------------------------
(* The parameter store: cached values and fallbacks *)

\* every name of StoreNames is stored under this key
StoreKey == "new_york"

\* a get found a readable entry under the key of its city name
GotWithEntry ==
    /\ ParamsCalled
    /\ params_call.cache_before[StoreKey].kind = "json"

\* the call ran neither the estimator nor a download
NoEstimation ==
    \A i \in DOMAIN params_call.log :
        params_call.log[i] \notin {"analyze_city", "download", "density",
                                   "structure", "intersections"}

\* C22 as stated: with a readable entry under the normalized name,
\* get_city_parameters returns exactly the cached value and runs neither the
\* estimator nor a download; after a put, every get for a name that
\* normalizes to the key returns the stored value until the key is invalidated.
C22_CachedValueReturned ==
    /\ GotWithEntry =>
          /\ params_call.params = params_call.cache_before[StoreKey].text
          /\ NoEstimation
          /\ city_cache[StoreKey] = params_call.cache_before[StoreKey]
    /\ params_call.op = "invalidate" => city_cache[StoreKey] = Absent

\* C22, amended: the same for the names outside the legacy table, as long as
\* the estimator module can be imported; when it cannot, the get returns the
\* fixed defaults, and a legacy name gets the legacy table's entry. No get
\* runs the estimator or changes the entry, and an invalidation removes it.
C22_CachedValueServed ==
    /\ GotWithEntry =>
          /\ params_call.params =
                (IF LegacyKey(params_call.city) # ""
                 THEN LEGACY_CITY_PARAMS[LegacyKey(params_call.city)]
                 ELSE IF ~params_call.env.import_ok THEN FixedFallback
                 ELSE params_call.cache_before[StoreKey].text)
          /\ NoEstimation
          /\ city_cache[StoreKey] = params_call.cache_before[StoreKey]
    /\ params_call.op = "invalidate" => city_cache[StoreKey] = Absent

\* "new york" was served an entry that is not the fallback set and that the
\* estimation it would have run now does not yield
C22_Witness ==
    /\ GotWithEntry
    /\ params_call.city = <<"n", "e", "w", " ", "y", "o", "r", "k">>
    /\ params_call.env.import_ok
    /\ params_call.params = params_call.cache_before[StoreKey].text
    /\ params_call.params # FixedFallback
    /\ params_call.params # analyze_city(params_call.env).params

\* the estimation of this call fell back to the defaults
EstimationFailed ==
    /\ ParamsCalled
    /\ LegacyKey(params_call.city) = ""
    /\ params_call.env.import_ok
    /\ params_call.cache_before[StoreKey].kind # "json"
    /\ params_call.env.fails \in {"download", "density", "structure"}

\* C28: the defaults returned because an estimation failed are not stored in
\* the parameter cache, so that a later call estimates again.
C28_FallbackNotCached ==
    EstimationFailed =>
        /\ params_call.params = FixedFallback
        /\ city_cache[StoreKey] = params_call.cache_before[StoreKey]

-----------------------------------------------------------------------------
(* The classifiers: rules and metrics *)

\* the metrics of the track that was classified, in metres and seconds
TrackDistance == distance(classify_call.track)

TrackStraightDistance == straight_metres(classify_call.track)

TrackDuration == classify_call.track.dur

\* sinuosity = distance / straight_distance in metres both, 1 when the
\* straight distance is 0, is below 1.05
SinuosityUnder105 ==
    \/ TrackStraightDistance = 0
    \/ 20 * TrackDistance < 21 * TrackStraightDistance

\* fewer than 50 points per km
DensityUnder50 ==
    TrackDistance > 0 /\ 1000 * classify_call.track.points < 50 * TrackDistance

\* the average speed, 0 when the duration is not positive, is above tenths/10 m/s
SpeedAbove(tenths) ==
    TrackDuration > 0 /\ 10 * TrackDistance > tenths * TrackDuration

\* the average speed is below tenths/10 m/s
SpeedBelow(tenths) ==
    IF TrackDuration > 0 THEN 10 * TrackDistance < tenths * TrackDuration
    ELSE tenths > 0

\* 7 km/h, the speed rule of is_probable_transit, in m/s: 3.6 * d / t > 7
SpeedAbove7Kmh == TrackDuration > 0 /\ 36 * TrackDistance > 70 * TrackDuration

\* C23: in is_probable_transit a track that passed the speed rule and has
\* sinuosity < 1.05, distance > 500 m and fewer than 50 points per km has its
\* street_following_ratio computed, and is rejected if the ratio is below
\* 0.3 and accepted otherwise.
C23_StreetFollowingDecides ==
    ( /\ classify_call.op = "is_probable_transit"
      /\ ~SpeedAbove7Kmh
      /\ SinuosityUnder105 /\ TrackDistance > 500 /\ DensityUnder50 ) =>
        /\ classify_call.street_following = classify_call.track.following
        /\ classify_call.is_walk <=> classify_call.track.following >= 30

\* the rules of the claim for the parameters of new_york (max_walking_speed
\* 3.0): none of them is triggered
NoRuleTriggered ==
    /\ ~SpeedAbove(36)
    /\ ~(SinuosityUnder105 /\ TrackDistance > 500 /\ DensityUnder50)
    /\ TrackDistance <= 5000

\* C24 as stated: the verdict of the filter of analyze_walks is fixed by the
\* rules alone: a track triggering none of them is accepted, also when its
\* average speed is below min_walking_speed or its duration is <= 0, and a
\* track longer than 5000 m, like any track triggering a rule, is rejected.
C24_RulesAloneDecide ==
    classify_call.op = "analyze_walks" =>
        /\ TrackDistance > 5000 => ~classify_call.is_walk
        /\ classify_call.is_walk <=> NoRuleTriggered

\* C24, amended: the verdict is fixed by these rules alone: rejected when
\* the average speed is above max_walking_speed x 1.2 or below
\* min_walking_speed (0.1 for new_york; a duration <= 0 gives speed 0 and
\* is rejected), when the track is longer than 2000 m and the sinuosity the
\* classifier computed is below 1.05, or when it is longer than 5000 m;
\* accepted otherwise.
C24_RulesOfTheFilter ==
    classify_call.op = "analyze_walks" =>
        /\ TrackDistance > 5000 => ~classify_call.is_walk
        /\ classify_call.is_walk <=>
              /\ ~SpeedAbove(36)
              /\ ~SpeedBelow(1)
              /\ ~(classify_call.straight /\ TrackDistance > 2000)
              /\ TrackDistance <= 5000

\* a track of 100 m whose start and end time are the same was rejected
C24_Witness ==
    /\ classify_call.op = "analyze_walks"
    /\ TrackDistance = 100 /\ TrackDuration = 0
    /\ NoRuleTriggered
    /\ ~classify_call.is_walk

\* C25: the sinuosity the classifiers compute is the path length over the
\* distance between the first and the last point, both in metres, 1 when
\* that distance is 0: the straightness test (sinuosity < 1.05) is true of
\* a track whose points lie in order on one straight line.
C25_SinuosityInMetres ==
    classify_call.op \in {"analyze_walks", "is_probable_transit"} =>
        (classify_call.straight <=> SinuosityUnder105)

-----------------------------------------------------------------------------
(* Coverage as the overlapped fraction *)

\* the metre of the street line from x to x + 1 lies inside the corridor of
\* an accepted walk (buffer 5 m, the buffer_distance of new_york)
InSomeCorridor(x) ==
    \E i \in DOMAIN result.walks :
        \E k \in DOMAIN result.walks[i].runs :
            /\ result.walks[i].runs[k].lo - 5 <= x
            /\ x + 1 <= result.walks[i].runs[k].hi + 5

\* the length of the segment that accepted corridors overlap
OverlappedLength(row) ==
    Cardinality({ x \in row.lo..(row.hi - 1) : InSomeCorridor(x) })

\* C26: coverage_percent is the fraction of the segment's length that
\* accepted walk corridors overlap, as a percentage capped at 100, a stretch
\* inside several corridors counted once: a segment with a stretch inside no
\* corridor has coverage_percent < 100.
C26_OverlappedFraction ==
    result.outcome = "returned" =>
        \A j \in DOMAIN result.streets :
            LET row == result.streets[j]
                len == row.hi - row.lo
                pct == row.coverage_percent
            IN  /\ pct[1] * len = 100 * OverlappedLength(row) * pct[2]
                /\ OverlappedLength(row) < len => pct[1] < 100 * pct[2]

-----------------------------------------------------------------------------
(* The street loader: failures *)

\* no place that the load of the city asks for can be downloaded: every
\* borough of london, the one place of any other city
DownloadFails(city, env) ==
    IF city = <<"L", "o", "n", "d", "o", "n">>
    THEN \A i \in DOMAIN env.places : env.places[i] = 0
    ELSE env.places[1] = 0

\* every cache file that can be read holds a network with segments
CacheHoldsNetworks ==
    \A k \in DOMAIN streets_cache :
        streets_cache[k].kind = "geojson" => streets_cache[k].features # <<>>

\* one call of load_street_network, from the cache before it to the cache
\* after it
LoadStep ==
    LET call == load_call'
        before == streets_cache[StreetFileName(call.city)]
    IN  call.op = "load_street_network" =>
            /\ call.source \in {"cache", "download", "failed"}
            /\ before.kind # "geojson" => call.source # "cache"
            /\ (before.kind # "geojson" /\ DownloadFails(call.city, call.env)) =>
                  /\ call.source = "failed"
                  /\ call.streets = <<>>
                  /\ streets_cache' = streets_cache
            /\ call.source = "cache" =>
                  /\ call.streets = before.features
                  /\ streets_cache' = streets_cache

\* C29: load_street_network always returns: with a cache file that cannot
\* be read it goes on to download, and when the download fails it returns an
\* empty collection and leaves the cache as it was, so that no later call
\* reads a cache that a failed load produced.
C29_FailedLoadLeavesNoCache == []CacheHoldsNetworks /\ [][LoadStep]_vars

\* a load found an unreadable cache file, tried the download and failed
C29_Witness ==
    /\ load_call.op = "load_street_network"
    /\ load_call.source = "failed"
    /\ DownloadFails(load_call.city, load_call.env)
    /\ streets_cache[StreetFileName(load_call.city)] = Unreadable

-----------------------------------------------------------------------------
(* validate_city_name and the download timeout *)

\* C30: validate_city_name leaves osmnx.settings.timeout as it found it,
\* whether the test download succeeds or raises.
C30_TimeoutRestored ==
    validate_call.op = "validate_city_name" =>
        ox_settings.timeout = validate_call.timeout_before
====
